---- MODULE Spec2Model ----
(***************************************************************************)
(* Two-node, multi-master replication of the food-app backend: Accounts,   *)
(* CatalogItems (products), Baskets (carts) and Orders.  Every node runs   *)
(* the same handlers; a local mutation commits to the node's own store and *)
(* schedules an envelope (setTimeout + axios) for the peer's sync route.   *)
(*                                                                         *)
(* Stores are MongoDB collections, modelled as sets of records keyed by    *)
(* the document id.  ObjectIds and generated sync ids are globally unique; *)
(* they are modelled as tuples naming the node and the thing they were     *)
(* generated for.                                                          *)
(***************************************************************************)
EXTENDS Integers, Sequences, FiniteSets, TLC

VARIABLES users, products, carts, orders, net, done, lost, nops, nredeliver, last,
          workload, running

vars == <<users, products, carts, orders, net, done, lost, nops, nredeliver, last,
         workload, running>>

-----------------------------------------------------------------------------
(* Bounds of the model *)

\* client mutations committed, per entity kind (both nodes together)
MaxUserOps == 2
MaxProductOps == 2
MaxCartOps == 2
MaxOrderOps == 2
\* client mutations committed in all
MaxOps == 4
\* envelopes the transport hands to the peer a second time
MaxRedeliver == 1
\* envelopes the transport loses
MaxLost == 1

\* client mutations in all in a run of SpecDispatch
MaxDispatchOps == 5

\* client mutations in all in a run of SpecIngest
MaxIngestOps == 3

\* client mutations in all in a run of SpecRace
MaxRaceOps == 4

-----------------------------------------------------------------------------
(* Configuration and input domains *)

\* process.env.SERVER_NAME of the two deployments
Nodes == {"server1", "server2"}

\* the entity kinds
Kinds == {"user", "product", "cart", "order"}

\* process.env.OTHER_SERVER_URL names the single peer
Peer(n) == IF n = "server1" THEN "server2" ELSE "server1"

Emails == {"ann@x.io"}
\* "" is a missing field of the request body
Names == {"", "ann"}
Passwords == {"Str0ng!pw"}

\* an absent syncId / originalServerId (sparse index: no value)
Null == <<>>

\* an empty request body
NoBody == [empty |-> TRUE]

\* bcrypt.hash(password, 10): salted, so the hash depends on where it was made
bcryptHash(n, password) == <<"bcrypt", n, password>>

-----------------------------------------------------------------------------
(* Accounts: userController.js *)

\* generateSyncId(serverName) for an account registered at n
generateSyncId(n, email) == <<n, "user", email>>

\* ObjectId of the Account created at node n for email
userId(n, email) == <<n, "uid", email>>

\* res.status(st).json({message: msg}); log is the apiLogger call that tells
\* the paths of a handler apart where the response does not
Logged(st, msg, log) == [status |-> st, message |-> msg, log |-> log]

Response(st, msg) == Logged(st, msg, "")

\* registerUser: returns the new collection, the response and the
\* envelopes scheduled for the peer
registerUser(us, n, body) ==
    IF body.name = "" \/ body.email = "" \/ body.password = ""
    THEN [users |-> us, res |-> Response(400, "All fields required"), out |-> {}]
    ELSE IF \E u \in us : u.email = body.email
    THEN [users |-> us, res |-> Response(400, "User already exists"), out |-> {}]
    ELSE LET newUser == [id |-> userId(n, body.email),
                         name |-> body.name,
                         email |-> body.email,
                         password |-> bcryptHash(n, body.password),
                         syncId |-> generateSyncId(n, body.email),
                         serverOrigin |-> n]
         IN [users |-> us \cup {newUser},
             res |-> Response(201, "User registered"),
             out |-> {[route |-> "POST /api/users/sync",
                       param |-> Null,
                       body |-> [name |-> newUser.name,
                                 email |-> newUser.email,
                                 password |-> newUser.password,
                                 syncId |-> newUser.syncId,
                                 serverOrigin |-> newUser.serverOrigin]]}]

\* syncUser with the create step stamping the receiving node as origin
syncUserRestamped(us, n, body) ==
    IF \E u \in us : u.syncId = body.syncId
    THEN [users |-> us, res |-> Response(200, "User already synced")]
    ELSE IF \E u \in us : u.email = body.email
    THEN LET userByEmail == CHOOSE u \in us : u.email = body.email
             saved == [userByEmail EXCEPT !.syncId = body.syncId,
                                          !.serverOrigin = body.serverOrigin]
         IN [users |-> (us \ {userByEmail}) \cup {saved},
             res |-> Response(200, "User updated with syncId")]
    ELSE [users |-> us \cup {[id |-> userId(n, body.email),
                              name |-> body.name,
                              email |-> body.email,
                              password |-> body.password,
                              syncId |-> body.syncId,
                              serverOrigin |-> n]},
          res |-> Response(201, "User synced successfully")]

\* syncUser at node n
syncUser(us, n, body) ==
    IF \E u \in us : u.syncId = body.syncId
    THEN [users |-> us, res |-> Response(200, "User already synced")]
    ELSE IF \E u \in us : u.email = body.email
    THEN LET userByEmail == CHOOSE u \in us : u.email = body.email
             saved == [userByEmail EXCEPT !.syncId = body.syncId,
                                          !.serverOrigin = body.serverOrigin]
         IN [users |-> (us \ {userByEmail}) \cup {saved},
             res |-> Response(200, "User updated with syncId")]
    ELSE [users |-> us \cup {[id |-> userId(n, body.email),
                              name |-> body.name,
                              email |-> body.email,
                              password |-> body.password,
                              syncId |-> body.syncId,
                              serverOrigin |-> body.serverOrigin]},
          res |-> Response(201, "User synced successfully")]

-----------------------------------------------------------------------------
(* CatalogItems: productController.js *)

\* request bodies of createProduct; a negative price fails validateProduct
ProductInputs == {[price |-> 100], [price |-> 600], [price |-> -1]}

\* a syncId a client wrote into an update body
ForgedSyncId == <<"forged">>

\* request bodies of updateProduct.  validateProductUpdate checks the values
\* of name, description, price, category and rating and lets every other key
\* through, so a body may also name syncId.
UpdateInputs ==
    {[price |-> 200], [available |-> FALSE], [price |-> -1],
     [price |-> 100, available |-> TRUE], [syncId |-> ForgedSyncId]}

\* ObjectId of the document created at node n by mutation k of its kind
objectId(n, k) == <<n, "oid", k>>

\* an id no document has
NoSuchId == <<"none", "oid", 0>>

\* generateSyncId(serverName) of productController, for the product
\* created at node n by product mutation k
generateProductSyncId(n, k) == <<n, "product", k>>

validateProduct(productData) == productData.price >= 0 /\ productData.price <= 10000

validateProductUpdate(updateData) ==
    "price" \in DOMAIN updateData => updateData.price >= 0

\* Object.keys(src).forEach((key) => { doc[key] = src[key] }) on the
\* schema paths of doc
AssignKeys(doc, src) ==
    [f \in DOMAIN doc |-> IF f \in DOMAIN src THEN src[f] ELSE doc[f]]

\* doc.save() of a document read as orig from collection coll: Mongoose
\* updates the stored document whose _id is the document's current _id and
\* the unique sparse index on syncId rejects a second holder of a value.
SaveOk(coll, orig, doc) ==
    /\ doc.id = orig.id
    /\ \A d \in coll \ {orig} : doc.syncId = Null \/ d.syncId # doc.syncId

Replace(coll, orig, doc) == (coll \ {orig}) \cup {doc}

\* Model.create(doc): the _id index and the syncId index are unique
CreateOk(coll, doc) ==
    \A d \in coll : d.id # doc.id /\ (doc.syncId = Null \/ d.syncId # doc.syncId)

\* createProduct whose dispatch task draws a syncId of its own
createProductRestamped(ps, n, k, productData) ==
    IF ~validateProduct(productData)
    THEN [products |-> ps, res |-> Response(400, "Validation failed"), out |-> {}]
    ELSE LET newProduct == [id |-> objectId(n, k),
                            price |-> productData.price,
                            available |-> TRUE,
                            syncId |-> generateProductSyncId(n, k),
                            serverOrigin |-> n,
                            originalServerId |-> Null]
         IN [products |-> ps \cup {newProduct},
             res |-> Response(201, "Product created successfully"),
             out |-> {[route |-> "POST /api/products/sync",
                       param |-> Null,
                       body |-> [id |-> newProduct.id,
                                 price |-> newProduct.price,
                                 available |-> newProduct.available,
                                 syncId |-> generateProductSyncId(n, k + 1),
                                 serverOrigin |-> newProduct.serverOrigin,
                                 originalServerId |-> newProduct.id]]}]

\* createProduct at node n, as product mutation k
createProduct(ps, n, k, productData) ==
    IF ~validateProduct(productData)
    THEN [products |-> ps, res |-> Response(400, "Validation failed"), out |-> {}]
    ELSE LET newProduct == [id |-> objectId(n, k),
                            price |-> productData.price,
                            available |-> TRUE,
                            syncId |-> generateProductSyncId(n, k),
                            serverOrigin |-> n,
                            originalServerId |-> Null]
         IN [products |-> ps \cup {newProduct},
             res |-> Response(201, "Product created successfully"),
             out |-> {[route |-> "POST /api/products/sync",
                       param |-> Null,
                       body |-> [id |-> newProduct.id,
                                 price |-> newProduct.price,
                                 available |-> newProduct.available,
                                 syncId |-> newProduct.syncId,
                                 serverOrigin |-> newProduct.serverOrigin,
                                 originalServerId |-> newProduct.id]]}]

\* updateProduct at node n
updateProduct(ps, n, id, updateData) ==
    IF ~validateProductUpdate(updateData)
    THEN [products |-> ps, res |-> Response(400, "Validation failed"), out |-> {}]
    ELSE IF ~\E p \in ps : p.id = id
    THEN [products |-> ps, res |-> Response(404, "Product not found"), out |-> {}]
    ELSE LET product == CHOOSE p \in ps : p.id = id
             saved == AssignKeys(product, updateData)
         IN IF ~SaveOk(ps, product, saved)
            THEN [products |-> ps, res |-> Response(500, "save failed"), out |-> {}]
            ELSE [products |-> Replace(ps, product, saved),
                  res |-> Response(200, "Product updated successfully"),
                  out |-> IF saved.syncId = Null THEN {}
                          ELSE {[route |-> "PUT /api/products/sync/:syncId",
                                 param |-> saved.syncId,
                                 body |-> [updates |-> updateData]]}]

\* deleteProduct that awaits the peer call before it answers: while the
\* peer has not returned, the client has no response
deleteProductAwaitingPeer(ps, n, id) ==
    IF ~\E p \in ps : p.id = id
    THEN [products |-> ps, res |-> Response(404, "Product not found"), out |-> {}]
    ELSE LET product == CHOOSE p \in ps : p.id = id
         IN [products |-> ps \ {product},
             res |-> IF product.syncId = Null
                     THEN Response(200, "Product deleted successfully")
                     ELSE Response(0, ""),
             out |-> IF product.syncId = Null THEN {}
                     ELSE {[route |-> "DELETE /api/products/sync/:syncId",
                            param |-> product.syncId,
                            body |-> NoBody]}]

\* deleteProduct that dispatches whether or not the product has a syncId
deleteProductAlwaysSending(ps, n, id) ==
    IF ~\E p \in ps : p.id = id
    THEN [products |-> ps, res |-> Response(404, "Product not found"), out |-> {}]
    ELSE LET product == CHOOSE p \in ps : p.id = id
         IN [products |-> ps \ {product},
             res |-> Response(200, "Product deleted successfully"),
             out |-> {[route |-> "DELETE /api/products/sync/:syncId",
                       param |-> product.syncId,
                       body |-> NoBody]}]

\* deleteProduct at node n
deleteProduct(ps, n, id) ==
    IF ~\E p \in ps : p.id = id
    THEN [products |-> ps, res |-> Response(404, "Product not found"), out |-> {}]
    ELSE LET product == CHOOSE p \in ps : p.id = id
         IN [products |-> ps \ {product},
             res |-> Response(200, "Product deleted successfully"),
             out |-> IF product.syncId = Null THEN {}
                     ELSE {[route |-> "DELETE /api/products/sync/:syncId",
                            param |-> product.syncId,
                            body |-> NoBody]}]

\* const { syncId, serverOrigin, originalServerId, ...productInfo } = productData
productInfoOf(productData) ==
    [f \in DOMAIN productData \ {"syncId", "serverOrigin", "originalServerId"}
        |-> productData[f]]

\* syncProduct at node n
syncProduct(ps, n, productData) ==
    LET productInfo == productInfoOf(productData)
    IN IF \E p \in ps : p.syncId = productData.syncId
       THEN LET existingProduct == CHOOSE p \in ps : p.syncId = productData.syncId
                saved == AssignKeys(existingProduct, productInfo)
            IN IF SaveOk(ps, existingProduct, saved)
               THEN [products |-> Replace(ps, existingProduct, saved),
                     res |-> Response(200, "Product updated via sync")]
               ELSE [products |-> ps, res |-> Response(500, "save failed")]
       ELSE IF /\ productData.originalServerId # Null
               /\ \E p \in ps : /\ p.originalServerId = productData.originalServerId
                                /\ p.serverOrigin = productData.serverOrigin
       THEN LET productByOriginalId ==
                    CHOOSE p \in ps : /\ p.originalServerId = productData.originalServerId
                                      /\ p.serverOrigin = productData.serverOrigin
                saved == AssignKeys([productByOriginalId EXCEPT !.syncId = productData.syncId],
                                    productInfo)
            IN IF SaveOk(ps, productByOriginalId, saved)
               THEN [products |-> Replace(ps, productByOriginalId, saved),
                     res |-> Response(200, "Product updated with syncId")]
               ELSE [products |-> ps, res |-> Response(500, "save failed")]
       ELSE LET newProduct == [id |-> productInfo.id,
                               price |-> productInfo.price,
                               available |-> productInfo.available,
                               syncId |-> productData.syncId,
                               serverOrigin |-> productData.serverOrigin,
                               originalServerId |-> productData.originalServerId]
            IN IF CreateOk(ps, newProduct)
               THEN [products |-> ps \cup {newProduct},
                     res |-> Response(201, "Product synced successfully")]
               ELSE [products |-> ps, res |-> Response(500, "duplicate key")]

\* syncProductUpdate that finds the product and saves it as it was
syncProductUpdateDiscarding(ps, n, syncId, updates) ==
    IF ~\E p \in ps : p.syncId = syncId
    THEN [products |-> ps, res |-> Response(404, "Product not found")]
    ELSE [products |-> ps, res |-> Response(200, "Product updated via sync")]

\* syncProductUpdate that answers without applying the updates
syncProductUpdateIgnored(ps, n, syncId, updates) ==
    IF ~\E p \in ps : p.syncId = syncId
    THEN [products |-> ps, res |-> Response(404, "Product not found")]
    ELSE [products |-> ps, res |-> Response(200, "Product updated via sync")]

\* syncProductUpdate at node n
syncProductUpdate(ps, n, syncId, updates) ==
    IF ~\E p \in ps : p.syncId = syncId
    THEN [products |-> ps, res |-> Response(404, "Product not found")]
    ELSE LET product == CHOOSE p \in ps : p.syncId = syncId
             saved == AssignKeys(product, updates)
         IN IF SaveOk(ps, product, saved)
            THEN [products |-> Replace(ps, product, saved),
                  res |-> Response(200, "Product updated via sync")]
            ELSE [products |-> ps, res |-> Response(500, "save failed")]

\* syncProductDelete at node n
syncProductDelete(ps, n, syncId) ==
    IF ~\E p \in ps : p.syncId = syncId
    THEN [products |-> ps, res |-> Response(404, "Product not found")]
    ELSE [products |-> ps \ {CHOOSE p \in ps : p.syncId = syncId},
          res |-> Response(200, "Product deleted via sync")]

-----------------------------------------------------------------------------
(* Baskets: cartController.js *)

\* quantities a client asks for
Quantities == {1, 2}

\* generateSyncId(serverName, userId) of cartController
generateCartSyncId(n, uid) == <<n, "cart", uid>>

\* ObjectId of the cart document node n holds for owner uid (the user index
\* of the Cart collection is unique)
cartId(n, uid) == <<n, "cid", uid>>

\* Cart.create({user, items: [], syncId, serverOrigin})
NewCart(n, uid) ==
    [id |-> cartId(n, uid), user |-> uid, items |-> <<>>,
     subTotal |-> 0, totalItems |-> 0,
     syncId |-> generateCartSyncId(n, uid), serverOrigin |-> n]

\* cart.items.findIndex((item) => item.product.toString() === productId),
\* 0 for -1
findIndex(items, productId) ==
    IF \E i \in 1..Len(items) : items[i].product = productId
    THEN CHOOSE i \in 1..Len(items) :
            /\ items[i].product = productId
            /\ \A j \in 1..(i - 1) : items[j].product # productId
    ELSE 0

\* cart.populate("items.product", ...) followed by cart.toObject(): the
\* product of an item whose product document is gone is null
populated(items, ps) ==
    [i \in 1..Len(items) |->
        IF \E p \in ps : p.id = items[i].product
        THEN items[i]
        ELSE [items[i] EXCEPT !.product = Null]]

\* cartItemSchema: product is required
validItems(items) == \A i \in 1..Len(items) : items[i].product # Null

\* the envelope of addToCart
CartEnvelope(cart, ps, uid) ==
    [route |-> "POST /api/carts/sync",
     param |-> Null,
     body |-> [cartData |-> [items |-> populated(cart.items, ps),
                             subTotal |-> cart.subTotal,
                             totalItems |-> cart.totalItems],
               syncId |-> cart.syncId,
               serverOrigin |-> cart.serverOrigin,
               userId |-> uid]]

\* getCart at node n for the authenticated user
getCart(cs, n, user) ==
    IF ~\E c \in cs : c.user = user.id
    THEN [carts |-> cs \cup {NewCart(n, user.id)},
          res |-> Response(200, "Cart fetched successfully"), out |-> {}]
    ELSE [carts |-> cs, res |-> Response(200, "Cart fetched successfully"), out |-> {}]

\* addToCart at node n for the authenticated user
addToCart(cs, ps, n, user, productId, quantity) ==
    IF productId = Null
    THEN [carts |-> cs, res |-> Response(400, "Product ID is required"), out |-> {}]
    ELSE IF quantity < 1
    THEN [carts |-> cs, res |-> Response(400, "Quantity must be at least 1"), out |-> {}]
    ELSE IF ~\E p \in ps : p.id = productId
    THEN [carts |-> cs, res |-> Response(404, "Product not found"), out |-> {}]
    ELSE LET product == CHOOSE p \in ps : p.id = productId
         IN IF ~product.available
            THEN [carts |-> cs, res |-> Response(400, "Product is not available"), out |-> {}]
            ELSE LET found == IF \E c \in cs : c.user = user.id
                              THEN CHOOSE c \in cs : c.user = user.id
                              ELSE NewCart(n, user.id)
                     i == findIndex(found.items, productId)
                     items ==
                        IF i > 0
                        THEN [found.items EXCEPT
                                ![i] = [product |-> productId,
                                        quantity |-> found.items[i].quantity + quantity,
                                        price |-> product.price,
                                        total |-> (found.items[i].quantity + quantity)
                                                    * product.price]]
                        ELSE Append(found.items, [product |-> productId,
                                                  quantity |-> quantity,
                                                  price |-> product.price,
                                                  total |-> quantity * product.price])
                     cart == [found EXCEPT !.items = items]
                 IN [carts |-> {c \in cs : c.user # user.id} \cup {cart},
                     res |-> Response(200, "Item added to cart"),
                     out |-> IF cart.syncId = Null THEN {}
                             ELSE {CartEnvelope(cart, ps, user.id)}]

\* clearCart at node n for the authenticated user
clearCart(cs, n, user) ==
    IF ~\E c \in cs : c.user = user.id
    THEN [carts |-> cs, res |-> Response(404, "Cart not found"), out |-> {}]
    ELSE LET found == CHOOSE c \in cs : c.user = user.id
             cart == [found EXCEPT !.items = <<>>]
         IN [carts |-> Replace(cs, found, cart),
             res |-> Response(200, "Cart cleared successfully"),
             out |-> IF cart.syncId = Null THEN {}
                     ELSE {[route |-> "POST /api/carts/sync/clear",
                            param |-> Null,
                            body |-> [syncId |-> cart.syncId]]}]

\* syncCart whose merge step appends the incoming items to the stored ones
syncCartAppending(cs, n, body) ==
    IF \E c \in cs : c.syncId = body.syncId
    THEN LET existingCart == CHOOSE c \in cs : c.syncId = body.syncId
             saved == [existingCart EXCEPT !.items = @ \o body.cartData.items,
                                           !.subTotal = body.cartData.subTotal,
                                           !.totalItems = body.cartData.totalItems]
         IN IF validItems(saved.items)
            THEN [carts |-> Replace(cs, existingCart, saved),
                  res |-> Response(200, "Cart updated via sync")]
            ELSE [carts |-> cs, res |-> Response(500, "validation failed")]
    ELSE LET newCart == [id |-> cartId(n, body.userId),
                         user |-> body.userId,
                         items |-> body.cartData.items,
                         subTotal |-> body.cartData.subTotal,
                         totalItems |-> body.cartData.totalItems,
                         syncId |-> body.syncId,
                         serverOrigin |-> body.serverOrigin]
         IN IF validItems(newCart.items) /\ \A c \in cs : c.user # newCart.user
            THEN [carts |-> cs \cup {newCart},
                  res |-> Response(201, "Cart synced successfully")]
            ELSE [carts |-> cs, res |-> Response(500, "create failed")]

\* syncCart at node n
syncCart(cs, n, body) ==
    IF \E c \in cs : c.syncId = body.syncId
    THEN LET existingCart == CHOOSE c \in cs : c.syncId = body.syncId
             saved == [existingCart EXCEPT !.items = body.cartData.items,
                                           !.subTotal = body.cartData.subTotal,
                                           !.totalItems = body.cartData.totalItems]
         IN IF validItems(saved.items)
            THEN [carts |-> Replace(cs, existingCart, saved),
                  res |-> Response(200, "Cart updated via sync")]
            ELSE [carts |-> cs, res |-> Response(500, "validation failed")]
    ELSE LET newCart == [id |-> cartId(n, body.userId),
                         user |-> body.userId,
                         items |-> body.cartData.items,
                         subTotal |-> body.cartData.subTotal,
                         totalItems |-> body.cartData.totalItems,
                         syncId |-> body.syncId,
                         serverOrigin |-> body.serverOrigin]
         IN IF validItems(newCart.items) /\ \A c \in cs : c.user # newCart.user
            THEN [carts |-> cs \cup {newCart},
                  res |-> Response(201, "Cart synced successfully")]
            ELSE [carts |-> cs, res |-> Response(500, "create failed")]

\* syncCartClear that refuses a basket that has no items
syncCartClearRefusingEmpty(cs, n, syncId) ==
    IF ~\E c \in cs : c.syncId = syncId
    THEN [carts |-> cs, res |-> Response(404, "Cart not found")]
    ELSE LET cart == CHOOSE c \in cs : c.syncId = syncId
         IN IF cart.items = <<>>
            THEN [carts |-> cs, res |-> Response(400, "Cart is already empty")]
            ELSE [carts |-> Replace(cs, cart, [cart EXCEPT !.items = <<>>]),
                  res |-> Response(200, "Cart cleared via sync")]

\* syncCartClear at node n
syncCartClear(cs, n, syncId) ==
    IF ~\E c \in cs : c.syncId = syncId
    THEN [carts |-> cs, res |-> Response(404, "Cart not found")]
    ELSE LET cart == CHOOSE c \in cs : c.syncId = syncId
         IN [carts |-> Replace(cs, cart, [cart EXCEPT !.items = <<>>]),
             res |-> Response(200, "Cart cleared via sync")]

\* quantities a client asks for in updateCartItem; 0 and 101 are refused
UpdateQuantities == {0, 3, 101}

\* updateCartItem at node n for the authenticated user
updateCartItem(cs, ps, n, user, productId, quantity) ==
    LET refused(st, msg) == [carts |-> cs, res |-> Response(st, msg), out |-> {}]
    IN IF quantity < 1
       THEN refused(400, "Quantity must be at least 1")
       ELSE IF quantity > 100
       THEN refused(400, "Quantity cannot exceed 100")
       ELSE IF ~\E c \in cs : c.user = user.id
       THEN refused(404, "Cart not found")
       ELSE LET found == CHOOSE c \in cs : c.user = user.id
                itemIndex == findIndex(found.items, productId)
            IN IF itemIndex = 0
               THEN refused(404, "Item not found in cart")
               ELSE IF ~\E p \in ps : p.id = productId
               THEN refused(404, "Product not found")
               ELSE LET product == CHOOSE p \in ps : p.id = productId
                        cart == [found EXCEPT
                                   !.items[itemIndex] =
                                       [product |-> productId,
                                        quantity |-> quantity,
                                        price |-> product.price,
                                        total |-> quantity * product.price]]
                    IN [carts |-> Replace(cs, found, cart),
                        res |-> Response(200, "Cart item updated"),
                        out |-> IF cart.syncId = Null THEN {}
                                ELSE {[route |-> "PUT /api/carts/sync/:syncId",
                                       param |-> cart.syncId,
                                       body |-> [productId |-> productId,
                                                 quantity |-> quantity,
                                                 action |-> "update"]]}]

\* items.splice(itemIndex, 1)
splice(items, itemIndex) ==
    [i \in 1..(Len(items) - 1) |-> IF i < itemIndex THEN items[i] ELSE items[i + 1]]

\* removeFromCart at node n for the authenticated user
removeFromCart(cs, n, user, productId) ==
    IF ~\E c \in cs : c.user = user.id
    THEN [carts |-> cs, res |-> Response(404, "Cart not found"), out |-> {}]
    ELSE LET found == CHOOSE c \in cs : c.user = user.id
             itemIndex == findIndex(found.items, productId)
             cart == [found EXCEPT !.items = splice(found.items, itemIndex)]
         IN IF itemIndex = 0
            THEN [carts |-> cs, res |-> Response(404, "Item not found in cart"),
                  out |-> {}]
            ELSE [carts |-> Replace(cs, found, cart),
                  res |-> Response(200, "Item removed from cart"),
                  out |-> IF cart.syncId = Null THEN {}
                          ELSE {[route |-> "DELETE /api/carts/sync/:syncId",
                                 param |-> cart.syncId,
                                 body |-> [productId |-> productId]]}]

\* syncCartUpdate that opens a basket for a syncId it does not know
syncCartUpdateUpserting(cs, ps, n, syncId, body) ==
    IF ~\E c \in cs : c.syncId = syncId
    THEN [carts |-> cs \cup {[id |-> cartId(n, Null), user |-> Null,
                              items |-> <<>>, subTotal |-> 0, totalItems |-> 0,
                              syncId |-> syncId, serverOrigin |-> Peer(n)]},
          res |-> Response(404, "Cart not found")]
    ELSE [carts |-> cs, res |-> Response(200, "Cart updated via sync")]

\* syncCartUpdate at node n
syncCartUpdate(cs, ps, n, syncId, body) ==
    IF ~\E c \in cs : c.syncId = syncId
    THEN [carts |-> cs, res |-> Response(404, "Cart not found")]
    ELSE LET cart == CHOOSE c \in cs : c.syncId = syncId
             itemIndex == findIndex(cart.items, body.productId)
             saved ==
                IF body.action = "update"
                THEN IF itemIndex > 0 /\ \E p \in ps : p.id = body.productId
                     THEN LET product == CHOOSE p \in ps : p.id = body.productId
                          IN [cart EXCEPT
                                !.items[itemIndex] =
                                    [product |-> body.productId,
                                     quantity |-> body.quantity,
                                     price |-> product.price,
                                     total |-> body.quantity * product.price]]
                     ELSE cart
                ELSE IF body.action = "remove" /\ itemIndex > 0
                THEN [cart EXCEPT !.items = splice(cart.items, itemIndex)]
                ELSE cart
         IN [carts |-> Replace(cs, cart, saved),
             res |-> Response(200, "Cart updated via sync")]

-----------------------------------------------------------------------------
(* Orders: models/Order.js and orderController.js *)

\* `ORD${Date.now()}${Math.floor(Math.random() * 10000)}`: the values a
\* pre-save hook can draw; two nodes can draw the same one
OrderNumbers == {"ORD1700000000000001", "ORD1700000000000002"}

\* generateSyncId(serverName) of orderController, for order mutation k
generateOrderSyncId(n, k) == <<n, "order", k>>

RECURSIVE SumTotals(_)
\* items.reduce((sum, i) => sum + i.total, 0)
SumTotals(items) ==
    IF items = <<>> THEN 0 ELSE Head(items).total + SumTotals(Tail(items))

\* a pre-save hook that draws the order number and recomputes nothing
preSaveNumberOnly(order, drawn) ==
    [order EXCEPT !.orderNumber = IF order.orderNumber = "" THEN drawn ELSE @]

\* orderSchema.pre("save"), given the number the hook draws when the order
\* has none
preSave(order, drawn) ==
    LET items == [i \in 1..Len(order.items) |->
                    [order.items[i] EXCEPT
                        !.total = order.items[i].price * order.items[i].quantity]]
        subtotal == IF Len(order.items) > 0 THEN SumTotals(items) ELSE order.subtotal
    IN [order EXCEPT
          !.orderNumber = IF order.orderNumber = "" THEN drawn ELSE @,
          !.items = items,
          !.subtotal = subtotal,
          !.totalAmount = subtotal + order.tax + order.deliveryFee]

\* the unique index on orderNumber
NumberFree(os, order) ==
    \A o \in os : o.id = order.id \/ o.orderNumber # order.orderNumber

\* cart.items mapped to order lines with no line dropped: a line whose
\* product is gone or unavailable keeps the basket's price
orderItemsOfAll(items, ps) ==
    [i \in 1..Len(items) |->
        [product |-> items[i].product,
         price |-> items[i].price,
         quantity |-> items[i].quantity,
         total |-> items[i].price * items[i].quantity]]

\* cart.items mapped to order lines; only the lines whose product is gone
\* are dropped
RECURSIVE orderItemsOfExisting(_, _)
orderItemsOfExisting(items, ps) ==
    IF items = <<>> THEN <<>>
    ELSE LET item == Head(items)
             rest == orderItemsOfExisting(Tail(items), ps)
         IN IF \E p \in ps : p.id = item.product
            THEN LET product == CHOOSE p \in ps : p.id = item.product
                 IN <<[product |-> product.id,
                       price |-> product.price,
                       quantity |-> item.quantity,
                       total |-> item.price * item.quantity]>> \o rest
            ELSE rest

\* cart.items mapped to order lines; lines whose product is gone or
\* unavailable are dropped
RECURSIVE orderItemsOf(_, _)
orderItemsOf(items, ps) ==
    IF items = <<>> THEN <<>>
    ELSE LET item == Head(items)
             rest == orderItemsOf(Tail(items), ps)
         IN IF \E p \in ps : p.id = item.product /\ p.available
            THEN LET product == CHOOSE p \in ps : p.id = item.product
                 IN <<[product |-> product.id,
                       price |-> product.price,
                       quantity |-> item.quantity,
                       total |-> item.price * item.quantity]>> \o rest
            ELSE rest

\* the flat delivery fee
DeliveryFee == 49
\* orders above this subtotal are delivered free
FreeDeliveryAbove == 500
\* tax = subtotal * 0.05
taxOf(subtotal) == subtotal \div 20

\* createOrder at node n for the authenticated user, as order mutation k;
\* drawn is the order number the pre-save hook generates
createOrder(os, cs, us, ps, n, k, user, drawn) ==
    LET unchanged(res) == [orders |-> os, carts |-> cs, res |-> res, out |-> {}]
    IN IF ~\E u \in us : u.email = user.email
       THEN unchanged(Response(404, "User not found on this server"))
       ELSE LET localUser == CHOOSE u \in us : u.email = user.email
            IN IF ~\E c \in cs : c.user = localUser.id /\ Len(c.items) > 0
               THEN unchanged(Response(400, "Cart is empty. Add items before placing order."))
               ELSE LET cart == CHOOSE c \in cs : c.user = localUser.id
                        orderItems == orderItemsOf(cart.items, ps)
                        subtotal == SumTotals(orderItems)
                        tax == taxOf(subtotal)
                        deliveryFee == IF subtotal > FreeDeliveryAbove THEN 0 ELSE DeliveryFee
                        order == preSave([id |-> objectId(n, k),
                                          user |-> localUser.id,
                                          orderNumber |-> "",
                                          items |-> orderItems,
                                          status |-> "pending",
                                          paymentStatus |-> "pending",
                                          subtotal |-> subtotal,
                                          tax |-> tax,
                                          deliveryFee |-> deliveryFee,
                                          totalAmount |-> subtotal + tax + deliveryFee,
                                          syncId |-> generateOrderSyncId(n, k),
                                          serverOrigin |-> n], drawn)
                        cleared == [cart EXCEPT !.items = <<>>, !.subTotal = 0,
                                                !.totalItems = 0]
                    IN IF orderItems = <<>>
                       THEN unchanged(Response(400, "No valid items in cart."))
                       ELSE IF ~(CreateOk(os, order) /\ NumberFree(os, order))
                       THEN unchanged(Response(500, "Failed to create order. Please try again."))
                       ELSE [orders |-> os \cup {order},
                             carts |-> Replace(cs, cart, cleared),
                             res |-> Response(201, "Order placed successfully"),
                             out |-> (IF cart.syncId = Null THEN {}
                                      ELSE {[route |-> "POST /api/carts/sync/clear",
                                             param |-> Null,
                                             body |-> [syncId |-> cart.syncId]]})
                                     \cup {[route |-> "POST /api/orders/sync",
                                            param |-> Null,
                                            body |-> [orderData |-> order,
                                                      syncId |-> order.syncId,
                                                      serverOrigin |-> order.serverOrigin,
                                                      userEmail |-> localUser.email]]}]

\* validateSyncOrder on the fields the model carries
validateSyncOrder(data) ==
    /\ data.orderData.orderNumber # ""
    /\ Len(data.orderData.items) > 0
    /\ data.syncId # Null
    /\ data.serverOrigin \in Nodes
    /\ data.userEmail # ""

\* orderItemSchema: product is required and quantity is at least 1, price
\* at least 0; Mongoose validates the lines before it writes the order
validOrderLines(items) ==
    \A i \in 1..Len(items) :
        /\ items[i].product # Null
        /\ items[i].quantity >= 1
        /\ items[i].price >= 0

\* syncOrder that leaves the basket of the local account as it is
syncOrderKeepingBasket(os, cs, us, n, body) ==
    IF ~validateSyncOrder(body)
    THEN [orders |-> os, carts |-> cs, res |-> Response(400, "Validation failed")]
    ELSE IF ~\E u \in us : u.email = body.userEmail
    THEN [orders |-> os, carts |-> cs,
          res |-> Response(404, "User not found on this server")]
    ELSE LET localUser == CHOOSE u \in us : u.email = body.userEmail
             orderData == body.orderData
             cs2 == cs
             ok(log) == Logged(200, "Order synced and cart cleared successfully", log)
             failed == [orders |-> os, carts |-> cs2, res |-> Response(500, "save failed")]
         IN IF \E o \in os : o.syncId = body.syncId
            THEN LET order == CHOOSE o \in os : o.syncId = body.syncId
                     saved == preSave([AssignKeys(order, orderData)
                                          EXCEPT !.user = localUser.id], "")
                 IN IF validOrderLines(saved.items) /\ SaveOk(os, order, saved) /\ NumberFree(os, saved)
                    THEN [orders |-> Replace(os, order, saved), carts |-> cs2,
                          res |-> ok("sync.duplicate")]
                    ELSE failed
            ELSE IF \E o \in os : o.orderNumber = orderData.orderNumber
            THEN LET order == CHOOSE o \in os : o.orderNumber = orderData.orderNumber
                     saved == preSave(AssignKeys([order EXCEPT
                                                    !.syncId = body.syncId,
                                                    !.serverOrigin = body.serverOrigin,
                                                    !.user = localUser.id],
                                                 orderData), "")
                 IN IF validOrderLines(saved.items) /\ SaveOk(os, order, saved) /\ NumberFree(os, saved)
                    THEN [orders |-> Replace(os, order, saved), carts |-> cs2,
                          res |-> ok("sync.merged")]
                    ELSE failed
            ELSE LET created == preSave([AssignKeys(orderData,
                                            [syncId |-> body.syncId,
                                             serverOrigin |-> body.serverOrigin])
                                          EXCEPT !.user = localUser.id], "")
                 IN IF validOrderLines(created.items) /\ CreateOk(os, created) /\ NumberFree(os, created)
                    THEN [orders |-> os \cup {created}, carts |-> cs2,
                          res |-> ok("sync.success")]
                    ELSE failed

\* syncOrder at node n
syncOrder(os, cs, us, n, body) ==
    IF ~validateSyncOrder(body)
    THEN [orders |-> os, carts |-> cs, res |-> Response(400, "Validation failed")]
    ELSE IF ~\E u \in us : u.email = body.userEmail
    THEN [orders |-> os, carts |-> cs,
          res |-> Response(404, "User not found on this server")]
    ELSE LET localUser == CHOOSE u \in us : u.email = body.userEmail
             orderData == body.orderData
             \* the basket of the local account is emptied first
             cs2 == {IF c.user = localUser.id /\ Len(c.items) > 0
                     THEN [c EXCEPT !.items = <<>>] ELSE c : c \in cs}
             ok(log) == Logged(200, "Order synced and cart cleared successfully", log)
             failed == [orders |-> os, carts |-> cs2, res |-> Response(500, "save failed")]
         IN IF \E o \in os : o.syncId = body.syncId
            THEN LET order == CHOOSE o \in os : o.syncId = body.syncId
                     saved == preSave([AssignKeys(order, orderData)
                                          EXCEPT !.user = localUser.id], "")
                 IN IF validOrderLines(saved.items) /\ SaveOk(os, order, saved) /\ NumberFree(os, saved)
                    THEN [orders |-> Replace(os, order, saved), carts |-> cs2,
                          res |-> ok("sync.duplicate")]
                    ELSE failed
            ELSE IF \E o \in os : o.orderNumber = orderData.orderNumber
            THEN LET order == CHOOSE o \in os : o.orderNumber = orderData.orderNumber
                     saved == preSave(AssignKeys([order EXCEPT
                                                    !.syncId = body.syncId,
                                                    !.serverOrigin = body.serverOrigin,
                                                    !.user = localUser.id],
                                                 orderData), "")
                 IN IF validOrderLines(saved.items) /\ SaveOk(os, order, saved) /\ NumberFree(os, saved)
                    THEN [orders |-> Replace(os, order, saved), carts |-> cs2,
                          res |-> ok("sync.merged")]
                    ELSE failed
            ELSE LET created == preSave([AssignKeys(orderData,
                                            [syncId |-> body.syncId,
                                             serverOrigin |-> body.serverOrigin])
                                          EXCEPT !.user = localUser.id], "")
                 IN IF validOrderLines(created.items) /\ CreateOk(os, created) /\ NumberFree(os, created)
                    THEN [orders |-> os \cup {created}, carts |-> cs2,
                          res |-> ok("sync.success")]
                    ELSE failed

\* the statuses of orderSchema.status
Statuses ==
    {"pending", "confirmed", "preparing", "ready", "out_for_delivery",
     "delivered", "cancelled", "failed"}

\* statuses a client asks for in updateOrderStatus; "" is a missing field
StatusInputs == {"cancelled", "delivered", ""}

\* validateUpdateStatus
validateUpdateStatus(data) == data.status \in Statuses

\* updateOrderStatus that stores whatever valid status the client asks for
updateOrderStatusUnrestricted(os, us, n, user, orderId, body) ==
    LET refused(st, msg) == [orders |-> os, res |-> Response(st, msg), out |-> {}]
    IN IF ~validateUpdateStatus(body)
       THEN refused(400, "Validation failed")
       ELSE IF ~\E u \in us : u.email = user.email
       THEN refused(404, "User not found on this server")
       ELSE LET localUser == CHOOSE u \in us : u.email = user.email
            IN IF ~\E o \in os : o.id = orderId /\ o.user = localUser.id
               THEN refused(404, "Order not found")
               ELSE LET order == CHOOSE o \in os : o.id = orderId /\ o.user = localUser.id
                        saved == preSave([order EXCEPT !.status = body.status], "")
                    IN [orders |-> Replace(os, order, saved),
                        res |-> Response(200, "Order status updated successfully"),
                        out |-> IF saved.syncId = Null THEN {}
                                ELSE {[route |-> "PUT /api/orders/sync/:syncId",
                                       param |-> saved.syncId,
                                       body |-> [status |-> body.status,
                                                 action |-> "update_status"]]}]

\* updateOrderStatus at node n for the authenticated user
updateOrderStatus(os, us, n, user, orderId, body) ==
    LET refused(st, msg) == [orders |-> os, res |-> Response(st, msg), out |-> {}]
    IN IF ~validateUpdateStatus(body)
       THEN refused(400, "Validation failed")
       ELSE IF ~\E u \in us : u.email = user.email
       THEN refused(404, "User not found on this server")
       ELSE LET localUser == CHOOSE u \in us : u.email = user.email
            IN IF ~\E o \in os : o.id = orderId /\ o.user = localUser.id
               THEN refused(404, "Order not found")
               ELSE LET order == CHOOSE o \in os : o.id = orderId /\ o.user = localUser.id
                        saved == preSave([order EXCEPT !.status = body.status,
                                                       !.paymentStatus = "failed"], "")
                    IN IF body.status # "cancelled"
                       THEN refused(403, "You can only cancel your orders. For other status updates, contact support.")
                       ELSE IF order.status \notin {"pending", "confirmed"}
                       THEN refused(400, "Cannot cancel order")
                       ELSE [orders |-> Replace(os, order, saved),
                             res |-> Response(200, "Order status updated successfully"),
                             out |-> IF saved.syncId = Null THEN {}
                                     ELSE {[route |-> "PUT /api/orders/sync/:syncId",
                                            param |-> saved.syncId,
                                            body |-> [status |-> body.status,
                                                      action |-> "update_status"]]}]

\* syncOrderUpdate that drops the order the peer cancelled
syncOrderUpdateDropping(os, n, syncId, body) ==
    IF ~\E o \in os : o.syncId = syncId
    THEN [orders |-> os, res |-> Response(404, "Order not found for sync")]
    ELSE [orders |-> IF body.status = "cancelled"
                     THEN {o \in os : o.syncId # syncId} ELSE os,
          res |-> Response(200, "Order updated via sync")]

\* syncOrderUpdate at node n
syncOrderUpdate(os, n, syncId, body) ==
    IF ~\E o \in os : o.syncId = syncId
    THEN [orders |-> os, res |-> Response(404, "Order not found for sync")]
    ELSE LET order == CHOOSE o \in os : o.syncId = syncId
             saved == preSave([order EXCEPT
                                 !.status = body.status,
                                 !.paymentStatus = IF body.status = "delivered"
                                                   THEN "completed" ELSE @], "")
         IN IF body.action = "update_status" /\ body.status # ""
            THEN [orders |-> Replace(os, order, saved),
                  res |-> Response(200, "Order updated via sync")]
            ELSE [orders |-> os, res |-> Response(200, "Order updated via sync")]

-----------------------------------------------------------------------------
(* Dispatch: setTimeout(async () => axios...(otherServerUrl ...), 100) *)

\* the envelopes a handler at n scheduled, addressed to the peer and
\* numbered by the mutation that scheduled them
Scheduled(n, kind, out) ==
    {[from |-> n, to |-> Peer(n), op |-> <<kind, nops[kind] + 1>>,
      route |-> e.route, param |-> e.param, body |-> e.body] : e \in out}

\* the client mutations of each kind, and in all, that a run may commit
Workload(u, p, c, o, total) ==
    [user |-> u, product |-> p, cart |-> c, order |-> o, total |-> total]

CanMutate(kind) ==
    /\ nops["user"] + nops["product"] + nops["cart"] + nops["order"] < workload.total
    /\ nops[kind] < workload[kind]

Last(n, handler, body, res) ==
    [node |-> n, handler |-> handler, body |-> body,
     status |-> res.status, message |-> res.message, log |-> res.log]

-----------------------------------------------------------------------------
(* Actions *)

InitWith(w) ==
    /\ users = [n \in Nodes |-> {}]
    /\ products = [n \in Nodes |-> {}]
    /\ carts = [n \in Nodes |-> {}]
    /\ orders = [n \in Nodes |-> {}]
    /\ net = {}
    /\ done = {}
    /\ lost = {}
    /\ nops = [k \in Kinds |-> 0]
    /\ nredeliver = 0
    /\ last = [node |-> "none", handler |-> "none", body |-> NoBody,
               status |-> 0, message |-> "", log |-> ""]
    /\ workload = w
    /\ running = {}

Init == InitWith(Workload(MaxUserOps, MaxProductOps, MaxCartOps, MaxOrderOps, MaxOps))

InitUser == InitWith(Workload(MaxUserOps, 0, 0, 0, MaxUserOps))

InitProduct == InitWith(Workload(0, MaxProductOps, 0, 0, MaxProductOps))

InitCart == InitWith(Workload(1, 1, MaxCartOps, 0, 2 + MaxCartOps))

InitOrder == InitWith(Workload(1, 1, 2, MaxOrderOps, 4 + MaxOrderOps))

\* POST /api/users/register
ReqRegisterUser ==
    \E n \in Nodes, name \in Names, email \in Emails, password \in Passwords :
        LET body == [name |-> name, email |-> email, password |-> password]
            r == registerUser(users[n], n, body)
        IN /\ CanMutate("user")
           /\ users' = [users EXCEPT ![n] = r.users]
           /\ net' = net \cup Scheduled(n, "user", r.out)
           /\ nops' = [nops EXCEPT !["user"] = IF r.res.status = 201 THEN @ + 1 ELSE @]
           /\ last' = Last(n, "registerUser", body, r.res)
           /\ UNCHANGED <<products, carts, orders, done, lost, nredeliver, workload, running>>

\* a syncUser route whose handler sends what it received back to the sender
ReqSyncUserEchoing ==
    \E e \in net :
        /\ e.route = "POST /api/users/sync"
        /\ LET r == syncUser(users[e.to], e.to, e.body)
           IN /\ users' = [users EXCEPT ![e.to] = r.users]
              /\ last' = Last(e.to, "syncUser", e.body, r.res)
        /\ net' = (net \ {e}) \cup {[e EXCEPT !.from = e.to, !.to = e.from]}
        /\ done' = done \cup {e}
        /\ UNCHANGED <<products, carts, orders, lost, nops, nredeliver, workload, running>>

\* POST /api/users/sync, called by the peer's dispatch task
ReqSyncUser ==
    \E e \in net :
        /\ e.route = "POST /api/users/sync"
        /\ LET r == syncUser(users[e.to], e.to, e.body)
           IN /\ users' = [users EXCEPT ![e.to] = r.users]
              /\ last' = Last(e.to, "syncUser", e.body, r.res)
        /\ net' = net \ {e}
        /\ done' = done \cup {e}
        /\ UNCHANGED <<products, carts, orders, lost, nops, nredeliver, workload, running>>

\* a dispatch task whose catch sends the envelope once more
TransportFailRetrying ==
    \E e \in net :
        /\ Cardinality(lost) < MaxLost
        /\ e \notin lost
        /\ net' = net
        /\ lost' = lost \cup {e}
        /\ UNCHANGED <<users, products, carts, orders, done, nops, nredeliver, last, workload, running>>

\* the peer call fails (catch block of the dispatch task: logged, dropped);
\* lost records the envelopes that were dropped
TransportFail ==
    \E e \in net :
        /\ Cardinality(lost) < MaxLost
        /\ e \notin lost
        /\ net' = net \ {e}
        /\ lost' = lost \cup {e}
        /\ UNCHANGED <<users, products, carts, orders, done, nops, nredeliver, last, workload, running>>

\* the transport hands an envelope to the peer's route once more
Redeliver ==
    \E e \in done :
        /\ nredeliver < MaxRedeliver
        /\ e \notin net
        /\ net' = net \cup {e}
        /\ nredeliver' = nredeliver + 1
        /\ UNCHANGED <<users, products, carts, orders, done, lost, nops, last, workload, running>>

NextUser ==
    \/ ReqRegisterUser
    \/ ReqSyncUser
    \/ TransportFail
    \/ Redeliver

SpecUser == InitUser /\ [][NextUser]_vars

\* the ids a client can name in a product route at node n
ProductIdsAt(n) == {p.id : p \in products[n]} \cup {NoSuchId}

\* POST /api/products
ReqCreateProduct ==
    \E n \in Nodes, productData \in ProductInputs :
        LET r == createProduct(products[n], n, nops["product"] + 1, productData)
        IN /\ CanMutate("product")
           /\ products' = [products EXCEPT ![n] = r.products]
           /\ net' = net \cup Scheduled(n, "product", r.out)
           /\ nops' = [nops EXCEPT !["product"] = IF r.res.status = 201 THEN @ + 1 ELSE @]
           /\ last' = Last(n, "createProduct", productData, r.res)
           /\ UNCHANGED <<users, carts, orders, done, lost, nredeliver, workload, running>>

\* PUT /api/products/:id
ReqUpdateProduct ==
    \E n \in Nodes, updateData \in UpdateInputs :
      \E id \in ProductIdsAt(n) :
        LET r == updateProduct(products[n], n, id, updateData)
        IN /\ CanMutate("product")
           /\ products' = [products EXCEPT ![n] = r.products]
           /\ net' = net \cup Scheduled(n, "product", r.out)
           /\ nops' = [nops EXCEPT !["product"] = IF r.res.status = 200 THEN @ + 1 ELSE @]
           /\ last' = Last(n, "updateProduct", [id |-> id, updateData |-> updateData], r.res)
           /\ UNCHANGED <<users, carts, orders, done, lost, nredeliver, workload, running>>

\* DELETE /api/products/:id
ReqDeleteProduct ==
    \E n \in Nodes :
      \E id \in ProductIdsAt(n) :
        LET r == deleteProduct(products[n], n, id)
        IN /\ CanMutate("product")
           /\ products' = [products EXCEPT ![n] = r.products]
           /\ net' = net \cup Scheduled(n, "product", r.out)
           /\ nops' = [nops EXCEPT !["product"] = IF r.res.status = 200 THEN @ + 1 ELSE @]
           /\ last' = Last(n, "deleteProduct", [id |-> id], r.res)
           /\ UNCHANGED <<users, carts, orders, done, lost, nredeliver, workload, running>>

\* POST /api/products/sync
ReqSyncProduct ==
    \E e \in net :
        /\ e.route = "POST /api/products/sync"
        /\ LET r == syncProduct(products[e.to], e.to, e.body)
           IN /\ products' = [products EXCEPT ![e.to] = r.products]
              /\ last' = Last(e.to, "syncProduct", e.body, r.res)
        /\ net' = net \ {e}
        /\ done' = done \cup {e}
        /\ UNCHANGED <<users, carts, orders, lost, nops, nredeliver, workload, running>>

\* PUT /api/products/sync/:syncId
ReqSyncProductUpdate ==
    \E e \in net :
        /\ e.route = "PUT /api/products/sync/:syncId"
        /\ LET r == syncProductUpdate(products[e.to], e.to, e.param, e.body.updates)
           IN /\ products' = [products EXCEPT ![e.to] = r.products]
              /\ last' = Last(e.to, "syncProductUpdate",
                              [syncId |-> e.param, updates |-> e.body.updates], r.res)
        /\ net' = net \ {e}
        /\ done' = done \cup {e}
        /\ UNCHANGED <<users, carts, orders, lost, nops, nredeliver, workload, running>>

\* DELETE /api/products/sync/:syncId
ReqSyncProductDelete ==
    \E e \in net :
        /\ e.route = "DELETE /api/products/sync/:syncId"
        /\ LET r == syncProductDelete(products[e.to], e.to, e.param)
           IN /\ products' = [products EXCEPT ![e.to] = r.products]
              /\ last' = Last(e.to, "syncProductDelete", [syncId |-> e.param], r.res)
        /\ net' = net \ {e}
        /\ done' = done \cup {e}
        /\ UNCHANGED <<users, carts, orders, lost, nops, nredeliver, workload, running>>

NextProduct ==
    \/ ReqCreateProduct
    \/ ReqUpdateProduct
    \/ ReqDeleteProduct
    \/ ReqSyncProduct
    \/ ReqSyncProductUpdate
    \/ ReqSyncProductDelete
    \/ TransportFail
    \/ Redeliver

SpecProduct == InitProduct /\ [][NextProduct]_vars

\* GET /api/carts (verifyToken resolved the caller to a local Account)
ReqGetCart ==
    \E n \in Nodes :
      \E user \in users[n] :
        LET r == getCart(carts[n], n, user)
        IN /\ CanMutate("cart")
           /\ r.carts # carts[n]
           /\ carts' = [carts EXCEPT ![n] = r.carts]
           /\ nops' = [nops EXCEPT !["cart"] = @ + 1]
           /\ last' = Last(n, "getCart", [user |-> user.id], r.res)
           /\ UNCHANGED <<users, products, orders, net, done, lost, nredeliver, workload, running>>

\* POST /api/carts/add
ReqAddToCart ==
    \E n \in Nodes, quantity \in Quantities :
      \E user \in users[n], productId \in ProductIdsAt(n) :
        LET r == addToCart(carts[n], products[n], n, user, productId, quantity)
        IN /\ CanMutate("cart")
           /\ carts' = [carts EXCEPT ![n] = r.carts]
           /\ net' = net \cup Scheduled(n, "cart", r.out)
           /\ nops' = [nops EXCEPT !["cart"] = IF r.res.status = 200 THEN @ + 1 ELSE @]
           /\ last' = Last(n, "addToCart",
                           [user |-> user.id, productId |-> productId,
                            quantity |-> quantity], r.res)
           /\ UNCHANGED <<users, products, orders, done, lost, nredeliver, workload, running>>

\* DELETE /api/carts/clear
ReqClearCart ==
    \E n \in Nodes :
      \E user \in users[n] :
        LET r == clearCart(carts[n], n, user)
        IN /\ CanMutate("cart")
           /\ carts' = [carts EXCEPT ![n] = r.carts]
           /\ net' = net \cup Scheduled(n, "cart", r.out)
           /\ nops' = [nops EXCEPT !["cart"] = IF r.res.status = 200 THEN @ + 1 ELSE @]
           /\ last' = Last(n, "clearCart", [user |-> user.id], r.res)
           /\ UNCHANGED <<users, products, orders, done, lost, nredeliver, workload, running>>

\* POST /api/carts/sync
ReqSyncCart ==
    \E e \in net :
        /\ e.route = "POST /api/carts/sync"
        /\ LET r == syncCart(carts[e.to], e.to, e.body)
           IN /\ carts' = [carts EXCEPT ![e.to] = r.carts]
              /\ last' = Last(e.to, "syncCart", e.body, r.res)
        /\ net' = net \ {e}
        /\ done' = done \cup {e}
        /\ UNCHANGED <<users, products, orders, lost, nops, nredeliver, workload, running>>

\* POST /api/carts/sync/clear
ReqSyncCartClear ==
    \E e \in net :
        /\ e.route = "POST /api/carts/sync/clear"
        /\ LET r == syncCartClear(carts[e.to], e.to, e.body.syncId)
           IN /\ carts' = [carts EXCEPT ![e.to] = r.carts]
              /\ last' = Last(e.to, "syncCartClear", e.body, r.res)
        /\ net' = net \ {e}
        /\ done' = done \cup {e}
        /\ UNCHANGED <<users, products, orders, lost, nops, nredeliver, workload, running>>

NextCart ==
    \/ ReqRegisterUser
    \/ ReqSyncUser
    \/ ReqCreateProduct
    \/ ReqSyncProduct
    \/ ReqGetCart
    \/ ReqAddToCart
    \/ ReqClearCart
    \/ ReqSyncCart
    \/ ReqSyncCartClear
    \/ TransportFail
    \/ Redeliver

SpecCart == InitCart /\ [][NextCart]_vars

\* POST /api/orders/create
ReqCreateOrder ==
    \E n \in Nodes, drawn \in OrderNumbers :
      \E user \in users[n] :
        LET r == createOrder(orders[n], carts[n], users[n], products[n], n,
                             nops["order"] + 1, user, drawn)
        IN /\ CanMutate("order")
           /\ orders' = [orders EXCEPT ![n] = r.orders]
           /\ carts' = [carts EXCEPT ![n] = r.carts]
           /\ net' = net \cup Scheduled(n, "order", r.out)
           /\ nops' = [nops EXCEPT !["order"] = IF r.res.status = 201 THEN @ + 1 ELSE @]
           /\ last' = Last(n, "createOrder", [user |-> user.id, drawn |-> drawn], r.res)
           /\ UNCHANGED <<users, products, done, lost, nredeliver, workload, running>>

\* POST /api/orders/sync
ReqSyncOrder ==
    \E e \in net :
        /\ e.route = "POST /api/orders/sync"
        /\ LET r == syncOrder(orders[e.to], carts[e.to], users[e.to], e.to, e.body)
           IN /\ orders' = [orders EXCEPT ![e.to] = r.orders]
              /\ carts' = [carts EXCEPT ![e.to] = r.carts]
              /\ last' = Last(e.to, "syncOrder", e.body, r.res)
        /\ net' = net \ {e}
        /\ done' = done \cup {e}
        /\ UNCHANGED <<users, products, lost, nops, nredeliver, workload, running>>

Next ==
    \/ ReqRegisterUser
    \/ ReqSyncUser
    \/ ReqCreateProduct
    \/ ReqUpdateProduct
    \/ ReqDeleteProduct
    \/ ReqSyncProduct
    \/ ReqSyncProductUpdate
    \/ ReqSyncProductDelete
    \/ ReqGetCart
    \/ ReqAddToCart
    \/ ReqClearCart
    \/ ReqSyncCart
    \/ ReqSyncCartClear
    \/ ReqCreateOrder
    \/ ReqSyncOrder
    \/ Redeliver

Spec == Init /\ [][Next]_vars

NextOrder ==
    \/ ReqRegisterUser
    \/ ReqSyncUser
    \/ ReqCreateProduct
    \/ ReqSyncProduct
    \/ ReqAddToCart
    \/ ReqSyncCart
    \/ ReqSyncCartClear
    \/ ReqCreateOrder
    \/ ReqSyncOrder

SpecOrder == InitOrder /\ [][NextOrder]_vars

-----------------------------------------------------------------------------
(* Accounts: dual create, password on create/adopt, merge by syncId *)

AccountsOf(n, email) == {u \in users[n] : u.email = email}

UserEnvelopes(n, email) ==
    {e \in done \cup net \cup lost :
        e.route = "POST /api/users/sync" /\ e.from = n /\ e.body.email = email}

\* both nodes registered the email and each one's envelope was reconciled
\* by the other (none is still in flight or lost)
DualCreateReconciled(email) ==
    \A n \in Nodes :
        /\ UserEnvelopes(n, email) # {}
        /\ UserEnvelopes(n, email) \subseteq done \ net

\* C1: when both nodes registered the same email before hearing from each
\* other and both envelopes have been reconciled by syncUser, each node holds
\* exactly one Account for that email and the two carry the same syncId.
C1_DualCreateConverges ==
    \A email \in Emails :
        DualCreateReconciled(email) =>
            /\ \A n \in Nodes : Cardinality(AccountsOf(n, email)) = 1
            /\ \A u1 \in AccountsOf("server1", email),
                  u2 \in AccountsOf("server2", email) : u1.syncId = u2.syncId

\* the part of C1 the code does keep: one Account per email at each node
C1_OneAccountPerEmail ==
    \A email \in Emails :
        DualCreateReconciled(email) =>
            \A n \in Nodes : Cardinality(AccountsOf(n, email)) = 1

C1_Witness == \E email \in Emails : DualCreateReconciled(email)

\* C5: after syncUser created an Account from an envelope or adopted one by
\* email, the stored password hash of that Account is the envelope's hash.
C5_PasswordAsReceived ==
    (/\ last.handler = "syncUser"
     /\ last.message \in {"User updated with syncId", "User synced successfully"})
    => \A u \in AccountsOf(last.node, last.body.email) :
           u.password = last.body.password

\* C6: when syncUser finds a local Account with the envelope's syncId, every
\* field of the payload (name, email, password) is applied onto that Account.
C6_MergeAppliesPayload ==
    (last.handler = "syncUser" /\ last.message = "User already synced")
    => \A u \in users[last.node] :
           u.syncId = last.body.syncId =>
               /\ u.name = last.body.name
               /\ u.email = last.body.email
               /\ u.password = last.body.password

-----------------------------------------------------------------------------
(* Reconciliation steps seen as transitions *)

UserSync == "POST /api/users/sync"
ProductSync == "POST /api/products/sync"
ProductSyncUpdate == "PUT /api/products/sync/:syncId"
ProductSyncDelete == "DELETE /api/products/sync/:syncId"
CartSync == "POST /api/carts/sync"
CartSyncClear == "POST /api/carts/sync/clear"
OrderSync == "POST /api/orders/sync"

\* this step is the peer's handler reconciling envelope e
Delivered(e) == e \in net /\ e \notin net' /\ lost' = lost

\* the four stores of node n
StoresAt(n) ==
    [users |-> users[n], products |-> products[n],
     carts |-> carts[n], orders |-> orders[n]]

\* the stores of node e.to after its handler reconciled e from stores st
Reconciled(st, e) ==
    CASE e.route = UserSync ->
            [st EXCEPT !.users = syncUser(st.users, e.to, e.body).users]
      [] e.route = ProductSync ->
            [st EXCEPT !.products = syncProduct(st.products, e.to, e.body).products]
      [] e.route = CartSync ->
            [st EXCEPT !.carts = syncCart(st.carts, e.to, e.body).carts]
      [] e.route = CartSyncClear ->
            [st EXCEPT !.carts = syncCartClear(st.carts, e.to, e.body.syncId).carts]
      [] e.route = OrderSync ->
            LET r == syncOrder(st.orders, st.carts, st.users, e.to, e.body)
            IN [st EXCEPT !.orders = r.orders, !.carts = r.carts]
      [] OTHER -> st

-----------------------------------------------------------------------------
(* CatalogItems: convergence and merge by syncId *)

\* the replicated fields of the CatalogItems node n holds
Catalog(n) ==
    {[syncId |-> p.syncId, price |-> p.price, available |-> p.available] :
        p \in {q \in products[n] : q.syncId # Null}}

\* every envelope that was dispatched has been reconciled at the peer
AllReconciled == net = {} /\ lost = {}

\* each envelope was handed over once and no client wrote a syncId
OrdinaryRun ==
    /\ nredeliver = 0
    /\ \A n \in Nodes : \A p \in products[n] : p.syncId # ForgedSyncId

\* C2: once every envelope dispatched by createProduct, updateProduct and
\* deleteProduct has been delivered and reconciled at the peer, both nodes
\* hold the same CatalogItem syncIds with equal replicated fields.
C2_CatalogConverges ==
    (AllReconciled /\ done # {} /\ OrdinaryRun) => Catalog("server1") = Catalog("server2")

\* the syncId a product envelope addresses and the payload it merges
MergeSyncId(e) == IF e.route = ProductSync THEN e.body.syncId ELSE e.param

MergePayload(e) == IF e.route = ProductSync THEN productInfoOf(e.body) ELSE e.body.updates

\* C7: when syncProduct or syncProductUpdate finds a local product with the
\* incoming syncId, that product takes the payload's value in every field
\* the payload names and keeps every other field, and the number of
\* products is unchanged.
C7_MergeBySyncId ==
    [][\A e \in net :
        (/\ Delivered(e)
         /\ e.route \in {ProductSync, ProductSyncUpdate}
         /\ \E p \in products[e.to] : p.syncId = MergeSyncId(e))
        => LET p == CHOOSE q \in products[e.to] : q.syncId = MergeSyncId(e)
               payload == MergePayload(e)
               merged == [f \in DOMAIN p |->
                            IF f \in DOMAIN payload THEN payload[f] ELSE p[f]]
           IN /\ products'[e.to] = (products[e.to] \ {p}) \cup {merged}
              /\ Cardinality(products'[e.to]) = Cardinality(products[e.to])]_vars

\* syncProductUpdate merged a payload that names available and not price
C7_Witness ==
    /\ last.handler = "syncProductUpdate"
    /\ last.status = 200
    /\ DOMAIN last.body.updates = {"available"}
    /\ \E p \in products[last.node] :
          /\ p.syncId = last.body.syncId
          /\ p.available = last.body.updates.available

-----------------------------------------------------------------------------
(* Reconcilers: idempotence, adoption, creation, missing targets *)

UpsertOrClear == {UserSync, ProductSync, CartSync, CartSyncClear, OrderSync}

\* C3: reconciling the same Upsert envelope (syncUser, syncProduct,
\* syncCart, syncOrder) or Basket Clear envelope (syncCartClear) twice in
\* succession leaves the receiving node's stores as reconciling it once
\* does, whatever state the node is in when the envelope arrives.
C3_IdempotentRedelivery ==
    \A e \in net \cup done :
        e.route \in UpsertOrClear =>
            LET once == Reconciled(StoresAt(e.to), e)
            IN Reconciled(once, e) = once

\* an Order envelope was handed over a second time and syncOrder merged it
\* onto the order its first reconciliation created
C3_Witness ==
    /\ nredeliver > 0
    /\ last.handler = "syncOrder"
    /\ last.log = "sync.duplicate"
    /\ \E e \in done \ net :
          /\ e.route = OrderSync /\ e.body = last.body /\ e.to = last.node
          /\ Reconciled(StoresAt(e.to), e) = StoresAt(e.to)

Unmatched(e) ==
    CASE e.route = UserSync ->
            ~\E u \in users[e.to] : u.syncId = e.body.syncId \/ u.email = e.body.email
      [] e.route = ProductSync ->
            ~\E p \in products[e.to] :
                \/ p.syncId = e.body.syncId
                \/ /\ p.originalServerId = e.body.originalServerId
                   /\ p.serverOrigin = e.body.serverOrigin
      [] e.route = OrderSync ->
            ~\E o \in orders[e.to] :
                \/ o.syncId = e.body.syncId
                \/ o.orderNumber = e.body.orderData.orderNumber
      [] OTHER -> FALSE

\* the step added exactly one record to the store of e's kind, carrying the
\* envelope's syncId and originServer
CreatedOne(e) ==
    LET before == CASE e.route = UserSync -> users[e.to]
                    [] e.route = ProductSync -> products[e.to]
                    [] OTHER -> orders[e.to]
        after == CASE e.route = UserSync -> users'[e.to]
                   [] e.route = ProductSync -> products'[e.to]
                   [] OTHER -> orders'[e.to]
    IN /\ before \subseteq after
       /\ Cardinality(after \ before) = 1
       /\ \A r \in after \ before :
             /\ r.syncId = e.body.syncId
             /\ r.serverOrigin = e.body.serverOrigin

C9_MissingTargetSucceeds ==
    [][\A e \in net :
        (/\ Delivered(e)
         /\ \/ /\ e.route = ProductSyncDelete
               /\ ~\E p \in products[e.to] : p.syncId = e.param
            \/ /\ e.route = CartSyncClear
               /\ ~\E c \in carts[e.to] : c.syncId = e.body.syncId)
        => /\ last'.status \in 200..299
           /\ UNCHANGED <<users, products, carts, orders>>]_vars

\* C10: after syncCart reconciled a Basket envelope, the basket it created
\* or updated is owned by an Account record of the receiving node.
C10_BasketOwnedLocally ==
    (last.handler = "syncCart" /\ last.status \in {200, 201})
    => \A c \in carts[last.node] :
           c.syncId = last.body.syncId =>
               \E u \in users[last.node] : u.id = c.user

-----------------------------------------------------------------------------
(* The remaining basket and order routes, and the specification of dispatch *)

\* PUT /api/carts/update/:productId
ReqUpdateCartItem ==
    \E n \in Nodes, quantity \in UpdateQuantities :
      \E user \in users[n], productId \in ProductIdsAt(n) :
        LET r == updateCartItem(carts[n], products[n], n, user, productId, quantity)
        IN /\ CanMutate("cart")
           /\ carts' = [carts EXCEPT ![n] = r.carts]
           /\ net' = net \cup Scheduled(n, "cart", r.out)
           /\ nops' = [nops EXCEPT !["cart"] = IF r.res.status = 200 THEN @ + 1 ELSE @]
           /\ last' = Last(n, "updateCartItem",
                           [user |-> user.id, productId |-> productId,
                            quantity |-> quantity], r.res)
           /\ UNCHANGED <<users, products, orders, done, lost, nredeliver, workload, running>>

\* DELETE /api/carts/remove/:productId
ReqRemoveFromCart ==
    \E n \in Nodes :
      \E user \in users[n], productId \in ProductIdsAt(n) :
        LET r == removeFromCart(carts[n], n, user, productId)
        IN /\ CanMutate("cart")
           /\ carts' = [carts EXCEPT ![n] = r.carts]
           /\ net' = net \cup Scheduled(n, "cart", r.out)
           /\ nops' = [nops EXCEPT !["cart"] = IF r.res.status = 200 THEN @ + 1 ELSE @]
           /\ last' = Last(n, "removeFromCart",
                           [user |-> user.id, productId |-> productId], r.res)
           /\ UNCHANGED <<users, products, orders, done, lost, nredeliver, workload, running>>

\* PUT /api/carts/sync/:syncId
ReqSyncCartUpdate ==
    \E e \in net :
        /\ e.route = "PUT /api/carts/sync/:syncId"
        /\ LET r == syncCartUpdate(carts[e.to], products[e.to], e.to, e.param, e.body)
           IN /\ carts' = [carts EXCEPT ![e.to] = r.carts]
              /\ last' = Last(e.to, "syncCartUpdate", e.body, r.res)
        /\ net' = net \ {e}
        /\ done' = done \cup {e}
        /\ UNCHANGED <<users, products, orders, lost, nops, nredeliver, workload, running>>

\* DELETE /api/carts/sync/:syncId: the basket router declares no such
\* route, the peer answers 404 and no handler runs
ReqCartSyncDelete ==
    \E e \in net :
        /\ e.route = "DELETE /api/carts/sync/:syncId"
        /\ last' = Last(e.to, "none", e.body, Response(404, "Cannot DELETE"))
        /\ net' = net \ {e}
        /\ done' = done \cup {e}
        /\ UNCHANGED <<users, products, carts, orders, lost, nops, nredeliver, workload, running>>

\* PUT /api/orders/:orderId/status
ReqUpdateOrderStatus ==
    \E n \in Nodes, status \in StatusInputs :
      \E user \in users[n], order \in orders[n] :
        LET r == updateOrderStatus(orders[n], users[n], n, user, order.id,
                                   [status |-> status])
        IN /\ CanMutate("order")
           /\ orders' = [orders EXCEPT ![n] = r.orders]
           /\ net' = net \cup Scheduled(n, "order", r.out)
           /\ nops' = [nops EXCEPT !["order"] = IF r.res.status = 200 THEN @ + 1 ELSE @]
           /\ last' = Last(n, "updateOrderStatus",
                           [user |-> user.id, orderId |-> order.id,
                            status |-> status], r.res)
           /\ UNCHANGED <<users, products, carts, done, lost, nredeliver, workload, running>>

\* PUT /api/orders/sync/:syncId
ReqSyncOrderUpdate ==
    \E e \in net :
        /\ e.route = "PUT /api/orders/sync/:syncId"
        /\ LET r == syncOrderUpdate(orders[e.to], e.to, e.param, e.body)
           IN /\ orders' = [orders EXCEPT ![e.to] = r.orders]
              /\ last' = Last(e.to, "syncOrderUpdate", e.body, r.res)
        /\ net' = net \ {e}
        /\ done' = done \cup {e}
        /\ UNCHANGED <<users, products, carts, lost, nops, nredeliver, workload, running>>

InitDispatch == InitWith(Workload(1, MaxProductOps, MaxCartOps, MaxOrderOps, MaxDispatchOps))

\* in a run of SpecDispatch the clients call one node, the peer is reached
\* by envelopes only
EntryNode == "server1"

AtEntry(Request) == Request /\ last'.node = EntryNode

NextDispatch ==
    \/ AtEntry(ReqRegisterUser)
    \/ ReqSyncUser
    \/ AtEntry(ReqCreateProduct)
    \/ AtEntry(ReqUpdateProduct)
    \/ AtEntry(ReqDeleteProduct)
    \/ ReqSyncProduct
    \/ ReqSyncProductUpdate
    \/ ReqSyncProductDelete
    \/ AtEntry(ReqGetCart)
    \/ AtEntry(ReqAddToCart)
    \/ AtEntry(ReqUpdateCartItem)
    \/ AtEntry(ReqRemoveFromCart)
    \/ AtEntry(ReqClearCart)
    \/ ReqSyncCart
    \/ ReqSyncCartUpdate
    \/ ReqCartSyncDelete
    \/ ReqSyncCartClear
    \/ AtEntry(ReqCreateOrder)
    \/ AtEntry(ReqUpdateOrderStatus)
    \/ ReqSyncOrder
    \/ ReqSyncOrderUpdate

SpecDispatch == InitDispatch /\ [][NextDispatch]_vars

-----------------------------------------------------------------------------
(* Dispatch: non-blocking, best effort, fire once *)

\* the handlers that answer the client and leave the peer call to a timer
NonBlockingHandlers ==
    {"registerUser", "createProduct", "updateProduct", "deleteProduct",
     "addToCart", "updateCartItem", "clearCart", "createOrder",
     "updateOrderStatus"}

C12_BestEffortDispatch ==
    [][/\ \A e \in lost' \ lost :
            /\ e \notin net'
            /\ StoresAt(e.from)' = StoresAt(e.from)
            /\ last' = last
       /\ \A e \in lost \ done : e \notin net']_vars

\* the Basket envelope of an addToCart failed: the client has its 200, the
\* basket is committed at the sender and the peer never got it
C12_Witness ==
    \E e \in lost \ (done \cup net) :
        /\ e.route = CartSync
        /\ last.handler = "addToCart"
        /\ last.status = 200
        /\ last.node = e.from
        /\ \E c \in carts[e.from] : c.syncId = e.body.syncId /\ Len(c.items) > 0
        /\ carts[e.to] = {}

\* this step is a client request that committed a change to a store
LocalMutation ==
    /\ net \subseteq net'
    /\ lost' = lost
    /\ \E n \in Nodes : StoresAt(n)' # StoresAt(n)

\* C13: every client request that commits a change, the creation of a
\* basket by getCart or addToCart included, schedules exactly one
\* envelope; createOrder schedules exactly two, one Order envelope and one
\* Basket Clear envelope.
C13_FireOnce ==
    [][LocalMutation =>
          IF last'.handler = "createOrder"
          THEN /\ Cardinality(net' \ net) = 2
               /\ \E e \in net' \ net : e.route = OrderSync
               /\ \E e \in net' \ net : e.route = CartSyncClear
          ELSE Cardinality(net' \ net) = 1]_vars

-----------------------------------------------------------------------------
(* Order and Basket Clear *)

\* the Order envelope eo and the Basket Clear envelope ec of one createOrder
OrderPair(eo, ec) ==
    /\ eo.route = OrderSync
    /\ ec.route = CartSyncClear
    /\ eo.op = ec.op
    /\ eo.from = ec.from

\* the account and the basket of the order are at the peer, and no other
\* envelope for that basket is on its way
ReplicatedAtPeer(eo, ec) ==
    /\ \E u \in users[eo.to] : u.email = eo.body.userEmail
    /\ \E c \in carts[ec.to] : c.syncId = ec.body.syncId
    /\ \A e \in net : e.route = CartSync => e.body.syncId # ec.body.syncId

\* stores st hold the order of eo and no item in a basket of its account
OrderHeldBasketEmpty(st, eo, ec) ==
    /\ \E o \in st.orders : o.syncId = eo.body.syncId
    /\ \A c \in st.carts :
          \/ c.syncId = ec.body.syncId
          \/ \E u \in st.users : u.email = eo.body.userEmail /\ c.user = u.id
          => c.items = <<>>

\* the stores after the envelopes of seq were reconciled one after another
RECURSIVE ReconciledAll(_, _)
ReconciledAll(st, seq) ==
    IF seq = <<>> THEN st
    ELSE ReconciledAll(Reconciled(st, Head(seq)), Tail(seq))

\* the orders in which the peer can get both envelopes, one of them twice
Deliveries(eo, ec) ==
    {<<eo, ec>>, <<ec, eo>>,
     <<eo, eo, ec>>, <<eo, ec, eo>>, <<eo, ec, ec>>,
     <<ec, ec, eo>>, <<ec, eo, ec>>, <<ec, eo, eo>>}

BasketsOfAccount(n, email) ==
    {c \in carts[n] : \E u \in users[n] : u.email = email /\ c.user = u.id}

C16_ClearEmptiesBasket ==
    [][\A e \in net :
          /\ Delivered(e)
          /\ e.route = CartSyncClear
          /\ \E c \in carts[e.to] : c.syncId = e.body.syncId
          => /\ last'.handler = "syncCartClear"
             /\ last'.status = 200
             /\ \A c \in carts'[e.to] : c.syncId = e.body.syncId => c.items = <<>>
             /\ \A c \in carts[e.to] : c.syncId # e.body.syncId => c \in carts'[e.to]]_vars

\* a Basket Clear envelope was delivered a second time, to the basket its
\* first delivery had emptied, and was answered with success
C16_Witness ==
    /\ nredeliver > 0
    /\ last.handler = "syncCartClear"
    /\ last.status = 200
    /\ \E e \in done \ net :
          /\ e.route = CartSyncClear
          /\ e.body = last.body
          /\ e.to = last.node
          /\ \E c \in carts[e.to] : c.syncId = e.body.syncId /\ c.items = <<>>

-----------------------------------------------------------------------------
(* Ingestion: sync requests with missing or malformed fields.  The sync
   routes take any request, so the bodies come from the caller, not from
   a dispatch task of the peer. *)

\* a body POST /api/orders/sync accepts at node n: an order of the peer
\* with one line, for the account of that email
OrderBodyFor(n, email) ==
    [orderData |-> [id |-> <<Peer(n), "oid", 0>>,
                    user |-> userId(Peer(n), email),
                    orderNumber |-> "ORD1700000000000009",
                    items |-> <<[product |-> <<Peer(n), "oid", 0>>,
                                 quantity |-> 1, price |-> 100, total |-> 100]>>,
                    status |-> "pending",
                    paymentStatus |-> "pending",
                    subtotal |-> 100,
                    tax |-> 5,
                    deliveryFee |-> 49,
                    totalAmount |-> 154,
                    syncId |-> <<Peer(n), "order", 0>>,
                    serverOrigin |-> Peer(n)],
     syncId |-> <<Peer(n), "order", 0>>,
     serverOrigin |-> Peer(n),
     userEmail |-> email]

\* that body with its syncId missing, with its origin missing, and with
\* items that are no order lines (no product, quantity 0)
MalformedOrderBodies(n, email) ==
    {[OrderBodyFor(n, email) EXCEPT !.syncId = Null],
     [OrderBodyFor(n, email) EXCEPT !.serverOrigin = ""],
     [OrderBodyFor(n, email) EXCEPT
         !.orderData.items = <<[product |-> Null, quantity |-> 0,
                                price |-> 100, total |-> 0]>>]}

\* a body of POST /api/products/sync at node n with its syncId missing
MalformedProductBodies(n) ==
    {[id |-> <<Peer(n), "oid", 0>>,
      price |-> 100,
      available |-> TRUE,
      syncId |-> Null,
      serverOrigin |-> Peer(n),
      originalServerId |-> Null]}

\* POST /api/orders/sync with a malformed body
ReqSyncOrderMalformed ==
    \E n \in Nodes, email \in Emails :
      \E body \in MalformedOrderBodies(n, email) :
        LET r == syncOrder(orders[n], carts[n], users[n], n, body)
        IN /\ orders' = [orders EXCEPT ![n] = r.orders]
           /\ carts' = [carts EXCEPT ![n] = r.carts]
           /\ last' = Last(n, "syncOrder", body, r.res)
           /\ UNCHANGED <<users, products, net, done, lost, nops, nredeliver, workload, running>>

\* POST /api/products/sync with a malformed body
ReqSyncProductMalformed ==
    \E n \in Nodes :
      \E body \in MalformedProductBodies(n) :
        LET r == syncProduct(products[n], n, body)
        IN /\ products' = [products EXCEPT ![n] = r.products]
           /\ last' = Last(n, "syncProduct", body, r.res)
           /\ UNCHANGED <<users, carts, orders, net, done, lost, nops, nredeliver, workload, running>>

InitIngest == InitWith(Workload(1, 1, 1, 0, MaxIngestOps))

NextIngest ==
    \/ ReqRegisterUser
    \/ ReqSyncUser
    \/ ReqCreateProduct
    \/ ReqSyncProduct
    \/ ReqAddToCart
    \/ ReqSyncCart
    \/ ReqSyncOrderMalformed
    \/ ReqSyncProductMalformed

SpecIngest == InitIngest /\ [][NextIngest]_vars

\* this step answers a sync request that no dispatch task sent
MalformedRequest ==
    /\ net' = net
    /\ last'.handler \in {"syncOrder", "syncProduct"}

\* C17: a sync request whose required envelope fields are missing or
\* malformed (no syncId, no origin, items that are no order lines) is
\* answered with a rejection and leaves every store of the receiving node
\* as it was, the basket that syncOrder clears included.
C17_RejectedWithoutMutation ==
    [][MalformedRequest =>
          /\ last'.status >= 400
          /\ \A n \in Nodes : last'.node = n => StoresAt(n)' = StoresAt(n)]_vars

-----------------------------------------------------------------------------
(* syncId: immutable, unique *)

\* every record of coll that carried a syncId and is still in coll2 carries
\* the same syncId there
SyncIdsKept(coll, coll2) ==
    \A r \in coll, r2 \in coll2 :
        (r.id = r2.id /\ r.syncId # Null) => r2.syncId = r.syncId

\* C18: once a record carries a syncId, no operation at its node (local
\* update, sync update, merge, adoption) changes that syncId.
C18_SyncIdImmutable ==
    [][\A n \in Nodes :
          /\ SyncIdsKept(users[n], users'[n])
          /\ SyncIdsKept(products[n], products'[n])
          /\ SyncIdsKept(carts[n], carts'[n])
          /\ SyncIdsKept(orders[n], orders'[n])]_vars

-----------------------------------------------------------------------------
(* Handlers that overlap.  A handler reads with findOne, awaits, and writes
   with create or save; another handler of the same node can run between
   the read and the write.  A task of running is a handler that has done
   its reads: the request, and the stores as it saw them.  Its write is
   applied to the stores as they are when it comes, under the unique
   indexes of the schemas. *)

RegisterRoute == "POST /api/users/register"

\* the upsert routes, whose handlers read before they write
UpsertRoutes == {UserSync, ProductSync, CartSync, OrderSync}

\* collections whose unique indexes were never built
IndexOkUnbuilt(kind, coll, doc) == TRUE

\* the unique indexes, with email of User not among them
IndexOkWithoutEmail(kind, coll, doc) ==
    \A d \in coll :
        d.id # doc.id =>
            /\ doc.syncId = Null \/ d.syncId # doc.syncId
            /\ kind = "cart" => d.user # doc.user
            /\ kind = "order" => d.orderNumber # doc.orderNumber

\* the unique indexes: syncId (sparse) on every kind, email of User, user
\* of Cart, orderNumber of Order
IndexOk(kind, coll, doc) ==
    \A d \in coll :
        d.id # doc.id =>
            /\ doc.syncId = Null \/ d.syncId # doc.syncId
            /\ kind = "user" => d.email # doc.email
            /\ kind = "cart" => d.user # doc.user
            /\ kind = "order" => d.orderNumber # doc.orderNumber

\* syncUser and syncCart create without an _id and Mongoose draws a new
\* ObjectId; syncProduct and syncOrder create with the _id of the payload
Fresh(kind, cur, doc) ==
    IF kind \in {"user", "cart"} /\ \E c \in cur : c.id = doc.id
    THEN [doc EXCEPT !.id[2] = "oid"]
    ELSE doc

\* the write of a handler that read collection seen and computed result,
\* applied to the collection cur: Model.create inserts the new document,
\* doc.save() sets the paths the handler modified on the stored document
\* of that _id; either fails when a unique index refuses it
Commit(kind, cur, seen, result) ==
    LET created == {d \in result : \A s \in seen : s.id # d.id}
        changed == {d \in result : \E s \in seen : s.id = d.id /\ s # d}
        refused == [coll |-> cur, ok |-> FALSE]
    IN IF created # {}
       THEN LET d == Fresh(kind, cur, CHOOSE x \in created : TRUE)
            IN IF (\A c \in cur : c.id # d.id) /\ IndexOk(kind, cur, d)
               THEN [coll |-> cur \cup {d}, ok |-> TRUE]
               ELSE refused
       ELSE IF changed # {}
       THEN LET d == CHOOSE x \in changed : TRUE
                s == CHOOSE x \in seen : x.id = d.id
            IN IF ~\E c \in cur : c.id = d.id
               THEN refused
               ELSE LET c == CHOOSE x \in cur : x.id = d.id
                        saved == [f \in DOMAIN c |-> IF d[f] # s[f] THEN d[f] ELSE c[f]]
                    IN IF IndexOk(kind, cur, saved)
                       THEN [coll |-> Replace(cur, c, saved), ok |-> TRUE]
                       ELSE refused
       ELSE [coll |-> cur, ok |-> TRUE]

\* the handler of an upsert route and the response it computes from stores st
HandlerOf(route) ==
    CASE route = UserSync -> "syncUser"
      [] route = ProductSync -> "syncProduct"
      [] route = CartSync -> "syncCart"
      [] route = OrderSync -> "syncOrder"

Answer(st, e) ==
    CASE e.route = UserSync -> syncUser(st.users, e.to, e.body).res
      [] e.route = ProductSync -> syncProduct(st.products, e.to, e.body).res
      [] e.route = CartSync -> syncCart(st.carts, e.to, e.body).res
      [] e.route = OrderSync ->
            syncOrder(st.orders, st.carts, st.users, e.to, e.body).res

\* the catch blocks of registerUser and syncUser name email and
\* currentServer, which are declared inside the try block: the catch throws
\* and the handler sends no response.  Every other catch answers 500.
Thrown(route) ==
    IF route \in {RegisterRoute, UserSync}
    THEN Response(0, "no response")
    ELSE Response(500, "duplicate key")

\* the rejection nobody handles leaves the process running, or ends it:
\* then the timers and the handlers of node n are gone
AfterThrow(n, exits, rest) ==
    /\ net' = IF exits THEN {e \in net : e.from # n} ELSE net
    /\ running' = IF exits THEN {t \in rest : t.req.to # n} ELSE rest

\* register requests whose create is still to come
Pending == Cardinality({t \in running : t.req.route = RegisterRoute})

\* POST /api/users/register up to the await of bcrypt.hash: the request is
\* answered when registerUser refuses it, and is a task otherwise
BeginRegisterUser ==
    \E n \in Nodes, name \in Names, email \in Emails, password \in Passwords :
        LET body == [name |-> name, email |-> email, password |-> password]
            r == registerUser(users[n], n, body)
            req == [from |-> "client", to |-> n, op |-> <<"user", 0>>,
                    route |-> RegisterRoute, param |-> Null, body |-> body]
        IN /\ CanMutate("user")
           /\ nops["user"] + Pending < workload["user"]
           /\ IF r.res.status = 201
              THEN /\ running' = running \cup
                                   {[req |-> req, seen |-> StoresAt(n), nth |-> Pending]}
                   /\ last' = last
              ELSE /\ running' = running
                   /\ last' = Last(n, "registerUser", body, r.res)
           /\ UNCHANGED <<users, products, carts, orders, net, done, lost, nops,
                          nredeliver, workload>>

\* User.create of a register task, the response and the dispatch task
EndRegisterUser ==
    \E t \in running, exits \in BOOLEAN :
        LET n == t.req.to
            r == registerUser(t.seen.users, n, t.req.body)
            c == Commit("user", users[n], t.seen.users, r.users)
        IN /\ t.req.route = RegisterRoute
           /\ users' = [users EXCEPT ![n] = c.coll]
           /\ IF c.ok
              THEN /\ ~exits
                   /\ net' = net \cup Scheduled(n, "user", r.out)
                   /\ running' = running \ {t}
                   /\ nops' = [nops EXCEPT !["user"] = @ + 1]
                   /\ last' = Last(n, "registerUser", t.req.body, r.res)
              ELSE /\ AfterThrow(n, exits, running \ {t})
                   /\ nops' = nops
                   /\ last' = Last(n, "registerUser", t.req.body, Thrown(RegisterRoute))
           /\ UNCHANGED <<products, carts, orders, done, lost, nredeliver, workload>>

\* the reads of an upsert handler for an envelope the transport handed over
BeginReconcile ==
    \E e \in net :
        /\ e.route \in UpsertRoutes
        /\ net' = net \ {e}
        /\ done' = done \cup {e}
        /\ running' = running \cup
                        {[req |-> e, seen |-> StoresAt(e.to), nth |-> nredeliver]}
        /\ UNCHANGED <<users, products, carts, orders, lost, nops, nredeliver, last,
                       workload>>

\* the writes of an upsert handler and its response; syncOrder writes the
\* basket before the order
EndReconcile ==
    \E t \in running, exits \in BOOLEAN :
        LET e == t.req
            n == e.to
            st == Reconciled(t.seen, e)
            cu == Commit("user", users[n], t.seen.users, st.users)
            cp == Commit("product", products[n], t.seen.products, st.products)
            cc == Commit("cart", carts[n], t.seen.carts, st.carts)
            co == Commit("order", orders[n], t.seen.orders, st.orders)
            ok == cu.ok /\ cp.ok /\ cc.ok /\ co.ok
        IN /\ e.route \in UpsertRoutes
           /\ users' = [users EXCEPT ![n] = cu.coll]
           /\ products' = [products EXCEPT ![n] = cp.coll]
           /\ carts' = [carts EXCEPT ![n] = cc.coll]
           /\ orders' = [orders EXCEPT ![n] = IF cc.ok THEN co.coll ELSE @]
           /\ IF ok \/ e.route # UserSync
              THEN /\ ~exits
                   /\ net' = net
                   /\ running' = running \ {t}
              ELSE AfterThrow(n, exits, running \ {t})
           /\ last' = Last(n, HandlerOf(e.route), e.body,
                           IF ok THEN Answer(t.seen, e) ELSE Thrown(e.route))
           /\ UNCHANGED <<done, lost, nops, nredeliver, workload>>

InitRace == InitWith(Workload(1, 1, MaxCartOps, 1, MaxRaceOps))

NextRace ==
    \/ AtEntry(ReqRegisterUser)
    \/ AtEntry(ReqCreateProduct)
    \/ AtEntry(ReqAddToCart)
    \/ AtEntry(ReqCreateOrder)
    \/ BeginReconcile
    \/ EndReconcile
    \/ ReqSyncCartClear

InitRaceUser == InitWith(Workload(MaxUserOps, 0, 0, 0, MaxUserOps))

NextRaceUser ==
    \/ BeginRegisterUser
    \/ EndRegisterUser
    \/ BeginReconcile
    \/ EndReconcile
    \/ Redeliver

SpecRaceUser == InitRaceUser /\ [][NextRaceUser]_vars

SpecRace == InitRace /\ [][NextRace]_vars

\* no two records of coll carry the same syncId
UniqueSyncIds(coll) ==
    \A a, b \in coll : (a.syncId # Null /\ a.syncId = b.syncId) => a = b

\* C19: in every reachable state, at each node and for each kind, at most
\* one record carries a given syncId, also when two reconciliations of
\* envelopes with the same syncId overlap.
C19_SyncIdUnique ==
    \A n \in Nodes :
        /\ UniqueSyncIds(users[n])
        /\ UniqueSyncIds(products[n])
        /\ UniqueSyncIds(carts[n])
        /\ UniqueSyncIds(orders[n])

\* two Basket envelopes with the same syncId were reconciled at once: both
\* saw no basket, one created it and the create of the other was refused
C19_Witness ==
    /\ last.handler = "syncCart"
    /\ last.status = 500
    /\ \E t \in {e \in done : e.route = CartSync /\ e.to = last.node} :
          /\ t.body.syncId = last.body.syncId
          /\ t.body # last.body
    /\ Cardinality({c \in carts[last.node] : c.syncId = last.body.syncId}) = 1

-----------------------------------------------------------------------------
(* Accounts: one per email *)

\* this step answers, or ends without an answer, a registerUser request at
\* node n for that email
RegisterStep(n, email) ==
    \/ /\ last' # last
       /\ last'.handler = "registerUser"
       /\ last'.node = n
       /\ last'.body.email = email
    \/ \E t \in running \ running' :
          /\ t.req.route = RegisterRoute
          /\ t.req.to = n
          /\ t.req.body.email = email

-----------------------------------------------------------------------------
(* Envelope payloads and identifiers *)

\* id is an ObjectId that node n generated
GeneratedAt(id, n) == id # Null /\ id[1] = n

\* the record ids and account ids an envelope carries as payload
PayloadIds(e) ==
    CASE e.route = ProductSync -> {e.body.id, e.body.originalServerId}
      [] e.route = CartSync -> {e.body.userId}
      [] e.route = OrderSync -> {e.body.orderData.id, e.body.orderData.user}
      [] OTHER -> {}

\* C21: no envelope built by createProduct, addToCart or createOrder carries
\* a record id or account id that the sending node generated, and no basket
\* or order stored at a node names an account id that the other node
\* generated.
C21_NoLocalIdsInPayload ==
    /\ \A e \in net \cup done \cup lost :
          \A id \in PayloadIds(e) : ~GeneratedAt(id, e.from)
    /\ \A n \in Nodes :
          /\ \A c \in carts[n] : ~GeneratedAt(c.user, Peer(n))
          /\ \A o \in orders[n] : ~GeneratedAt(o.user, Peer(n))

-----------------------------------------------------------------------------
(* Order owner after syncOrder *)

\* the syncId of an order envelope that reaches the receiver a second time
\* under another name
RenamedSyncId(e) == <<e.from, "order", 0>>

\* POST /api/orders/sync with the body of an envelope the receiver has
\* answered, under a syncId the receiver does not hold: the route takes
\* any request (no verifyToken)
ReqSyncOrderRenamed ==
    \E e \in done :
        /\ e.route = "POST /api/orders/sync"
        /\ LET body == [e.body EXCEPT !.syncId = RenamedSyncId(e),
                                      !.orderData.syncId = RenamedSyncId(e)]
               r == syncOrder(orders[e.to], carts[e.to], users[e.to], e.to, body)
           IN /\ orders' = [orders EXCEPT ![e.to] = r.orders]
              /\ carts' = [carts EXCEPT ![e.to] = r.carts]
              /\ last' = Last(e.to, "syncOrder", body, r.res)
        /\ UNCHANGED <<users, products, net, done, lost, nops, nredeliver, workload, running>>

InitAdopt == InitWith(Workload(1, 1, 1, 1, 4))

NextAdopt ==
    \/ ReqRegisterUser
    \/ ReqSyncUser
    \/ ReqCreateProduct
    \/ ReqSyncProduct
    \/ ReqAddToCart
    \/ ReqSyncCart
    \/ ReqSyncCartClear
    \/ ReqCreateOrder
    \/ ReqSyncOrder
    \/ ReqSyncOrderRenamed

SpecAdopt == InitAdopt /\ [][NextAdopt]_vars

-----------------------------------------------------------------------------
(* Totals of orders *)

\* tax and delivery fee of order o follow from its stored subtotal
TaxAndFeeFollowSubtotal(o) ==
    /\ 20 * o.tax = o.subtotal
    /\ o.deliveryFee = IF o.subtotal > FreeDeliveryAbove THEN 0 ELSE DeliveryFee

RECURSIVE Reversed(_)
Reversed(items) ==
    IF items = <<>> THEN <<>> ELSE Reversed(Tail(items)) \o <<Head(items)>>

\* C24: every order stored at either node, after whichever of createOrder,
\* updateOrderStatus, syncOrder or syncOrderUpdate committed it, has line
\* totals of price times quantity, a subtotal that is the sum of the line
\* totals taken in any order, and a totalAmount of subtotal plus tax plus
\* delivery fee.
C24_OrderTotalInvariant ==
    \A n \in Nodes : \A o \in orders[n] :
        /\ \A i \in 1..Len(o.items) :
              o.items[i].total = o.items[i].price * o.items[i].quantity
        /\ o.subtotal = SumTotals(o.items)
        /\ o.subtotal = SumTotals(Reversed(o.items))
        /\ o.totalAmount = o.subtotal + o.tax + o.deliveryFee

\* syncOrderUpdate has committed the cancellation of a replicated order
C24_Witness ==
    /\ last.handler = "syncOrderUpdate"
    /\ last.status = 200
    /\ \E o \in orders[last.node] :
          /\ o.serverOrigin = Peer(last.node)
          /\ o.status = "cancelled"
          /\ Len(o.items) > 0

-----------------------------------------------------------------------------
(* Checkout at one node: baskets with unavailable or deleted products *)

MaxCheckoutProductOps == 3
MaxCheckoutCartOps == 3
MaxCheckoutOps == 7

InitCheckout ==
    InitWith(Workload(1, MaxCheckoutProductOps, MaxCheckoutCartOps,
                      MaxOrderOps, MaxCheckoutOps))

NextCheckout ==
    \/ AtEntry(ReqRegisterUser)
    \/ AtEntry(ReqCreateProduct)
    \/ AtEntry(ReqUpdateProduct)
    \/ AtEntry(ReqDeleteProduct)
    \/ AtEntry(ReqAddToCart)
    \/ AtEntry(ReqCreateOrder)

SpecCheckout == InitCheckout /\ [][NextCheckout]_vars

\* the product of a basket item exists at node n and is available
Orderable(n, item) ==
    \E p \in products[n] : p.id = item.product /\ p.available

\* the basket items whose product exists and is available, in basket order
Survivors(n, items) == SelectSeq(items, LAMBDA item : Orderable(n, item))

\* product and quantity of each line
Lines(items) == [i \in 1..Len(items) |-> <<items[i].product, items[i].quantity>>]

\* node n has answered a createOrder call of the owner of basket c
CreateOrderOn(n, c) ==
    /\ last'.handler = "createOrder"
    /\ last'.node = n
    /\ last'.body.user = c.user

\* the call stored one order, whose lines are the surviving items of c
OrderedSurvivors(n, c) ==
    /\ last'.status = 201
    /\ \E o \in orders'[n] :
          /\ orders'[n] = orders[n] \cup {o}
          /\ o \notin orders[n]
          /\ Lines(o.items) = Lines(Survivors(n, c.items))

\* the order number the pre-save hook drew is taken at node n
NumberTaken(n) == \E o \in orders[n] : o.orderNumber = last'.body.drawn

CreateOrderBy(n, uid) ==
    /\ last'.handler = "createOrder"
    /\ last'.node = n
    /\ last'.body.user = uid

\* account uid has at node n no basket, an empty one, or one in which the
\* product of every item is gone or unavailable
NothingToOrder(n, uid) ==
    \A c \in carts[n] : c.user = uid => Survivors(n, c.items) = <<>>

\* C26: createOrder on a basket that is empty, or in which every item's
\* product is missing or unavailable, reports a failure, stores no order,
\* leaves the basket as it was and schedules no envelope.
C26_NothingToOrderFailsCleanly ==
    [][\A n \in Nodes : \A u \in users[n] :
          (CreateOrderBy(n, u.id) /\ NothingToOrder(n, u.id)) =>
              /\ last'.status >= 400
              /\ orders' = orders
              /\ carts' = carts
              /\ net' = net]_vars

\* createOrder has refused a basket that holds items, none of them orderable
C26_Witness ==
    /\ last.handler = "createOrder"
    /\ last.status = 400
    /\ last.message = "No valid items in cart."
    /\ \E c \in carts[last.node] :
          /\ c.user = last.body.user
          /\ Len(c.items) > 0
          /\ Survivors(last.node, c.items) = <<>>

-----------------------------------------------------------------------------
(* Update envelopes that overtake one another *)

MaxReorderProductOps == 3
MaxReorderOps == 5

InitReorder ==
    InitWith(Workload(1, MaxReorderProductOps, MaxCartOps, 0, MaxReorderOps))

NextReorder ==
    \/ AtEntry(ReqRegisterUser)
    \/ ReqSyncUser
    \/ AtEntry(ReqCreateProduct)
    \/ AtEntry(ReqUpdateProduct)
    \/ ReqSyncProduct
    \/ ReqSyncProductUpdate
    \/ AtEntry(ReqAddToCart)
    \/ ReqSyncCart

SpecReorder == InitReorder /\ [][NextReorder]_vars

\* the record that update envelope e names holds, after the step, what the
\* payload of e carries
Overwrites(e) ==
    CASE e.route = ProductSyncUpdate ->
            \A p \in products[e.to] :
                p.syncId = e.param =>
                    \E q \in products'[e.to] :
                        /\ q.id = p.id
                        /\ \A k \in DOMAIN e.body.updates : q[k] = e.body.updates[k]
      [] e.route = CartSync ->
            \E c \in carts'[e.to] :
                /\ c.syncId = e.body.syncId
                /\ c.items = e.body.cartData.items
      [] OTHER -> TRUE

\* C27: whenever syncProductUpdate or syncCart commits an envelope, the
\* record at the receiver takes the values of that envelope, whether or not
\* an envelope that the sender dispatched later was committed before it: the
\* state of the record is the one of the reconciliation that committed last.
C27_LastWriterWins ==
    [][\A e \in net :
          (Delivered(e) /\ last'.status = 200
              /\ e.route \in {ProductSyncUpdate, CartSync}) => Overwrites(e)]_vars

\* two updates of one product were committed at the receiver in the order
\* opposite to the one they were dispatched in
C27_Witness ==
    \E e1, e2 \in done :
        /\ e1.route = ProductSyncUpdate
        /\ e2.route = ProductSyncUpdate
        /\ e1.param = e2.param
        /\ e1.op[2] < e2.op[2]
        /\ DOMAIN e1.body.updates = {"price"}
        /\ e2.body.updates = [available |-> FALSE]
        /\ last.handler = "syncProductUpdate"
        /\ last.status = 200
        /\ last.body.updates = e1.body.updates
        /\ \E p \in products[e1.to] :
              /\ p.syncId = e1.param
              /\ p.price = e1.body.updates.price
              /\ ~p.available

-----------------------------------------------------------------------------
(* Update reconcilers that overlap *)

MaxOverlapOps == 3

\* request bodies of updateProduct from a form that sends both fields
FormInputs ==
    {[price |-> 200, available |-> TRUE], [price |-> 100, available |-> FALSE]}

\* PUT /api/products/:id with the body of a form
ReqUpdateProductForm ==
    \E n \in Nodes, updateData \in FormInputs :
      \E id \in ProductIdsAt(n) :
        LET r == updateProduct(products[n], n, id, updateData)
        IN /\ CanMutate("product")
           /\ products' = [products EXCEPT ![n] = r.products]
           /\ net' = net \cup Scheduled(n, "product", r.out)
           /\ nops' = [nops EXCEPT !["product"] = IF r.res.status = 200 THEN @ + 1 ELSE @]
           /\ last' = Last(n, "updateProduct", [id |-> id, updateData |-> updateData], r.res)
           /\ UNCHANGED <<users, carts, orders, done, lost, nredeliver, workload, running>>

\* syncProductUpdate up to the end of await Product.findOne({ syncId })
BeginSyncProductUpdate ==
    \E e \in net :
        /\ e.route = ProductSyncUpdate
        /\ net' = net \ {e}
        /\ done' = done \cup {e}
        /\ running' = running \cup
                        {[req |-> e, seen |-> StoresAt(e.to), nth |-> nredeliver]}
        /\ UNCHANGED <<users, products, carts, orders, lost, nops, nredeliver, last,
                       workload>>

\* syncProductUpdate from the assignments on: product.save() writes the
\* paths the handler changed on the document as it read it
EndSyncProductUpdate ==
    \E t \in running :
        LET e == t.req
            n == e.to
            r == syncProductUpdate(t.seen.products, n, e.param, e.body.updates)
            c == Commit("product", products[n], t.seen.products, r.products)
        IN /\ e.route = ProductSyncUpdate
           /\ products' = [products EXCEPT ![n] = c.coll]
           /\ running' = running \ {t}
           /\ last' = Last(n, "syncProductUpdate",
                           [syncId |-> e.param, updates |-> e.body.updates],
                           IF c.ok THEN r.res ELSE Response(500, "save failed"))
           /\ UNCHANGED <<users, carts, orders, net, done, lost, nops, nredeliver,
                          workload>>

InitOverlap == InitWith(Workload(0, MaxOverlapOps, 0, 0, MaxOverlapOps))

NextOverlap ==
    \/ AtEntry(ReqCreateProduct)
    \/ AtEntry(ReqUpdateProductForm)
    \/ ReqSyncProduct
    \/ BeginSyncProductUpdate
    \/ EndSyncProductUpdate

SpecOverlap == InitOverlap /\ [][NextOverlap]_vars

\* record p after the reconciliation of update envelope e ran on it alone
Applied(p, e) == AssignKeys(p, e.body.updates)

\* the handler of update envelope e has read and written
Finished(e) == e \in done /\ \A t \in running : t.req # e

\* C28: when two syncProductUpdate reconciliations on one syncId have both
\* committed, the record equals the one that results from running them one
\* after the other, in one order or the other, on the record that the one
\* committing second had read: no update is lost.
C28_NoInterleavedReadModifyWrite ==
    [][\A t \in running : \A e \in done :
          (/\ t \notin running'
           /\ t.req.route = ProductSyncUpdate
           /\ e.route = ProductSyncUpdate
           /\ e # t.req
           /\ e.param = t.req.param
           /\ Finished(e))
          => \A p \in t.seen.products :
                p.syncId = t.req.param =>
                    \E q \in products'[t.req.to] :
                        /\ q.id = p.id
                        /\ q \in {Applied(Applied(p, t.req), e),
                                  Applied(Applied(p, e), t.req)}]_vars

-----------------------------------------------------------------------------
(* Records that reconcilers remove *)

\* the handlers of the sync routes
Reconcilers ==
    {"syncUser", "syncProduct", "syncProductUpdate", "syncProductDelete",
     "syncCart", "syncCartUpdate", "syncCartClear", "syncOrder", "syncOrderUpdate"}

\* the _ids of the documents of a collection
IdsOf(coll) == {d.id : d \in coll}

\* C29: a step of a reconciler removes no Account, no Order and no Basket
\* from the node's stores; the only document a reconciler removes is a
\* CatalogItem, and the reconciler that removes it is syncProductDelete.
C29_ReconcilersKeepRecords ==
    [][last'.handler \in Reconcilers =>
          \A n \in Nodes :
              /\ IdsOf(users[n]) \subseteq IdsOf(users'[n])
              /\ IdsOf(orders[n]) \subseteq IdsOf(orders'[n])
              /\ IdsOf(carts[n]) \subseteq IdsOf(carts'[n])
              /\ \/ IdsOf(products[n]) \subseteq IdsOf(products'[n])
                 \/ last'.handler = "syncProductDelete"]_vars

\* syncProductDelete has removed a CatalogItem at a node that holds an
\* Account, a Basket and an Order
C29_Witness ==
    /\ last.handler = "syncProductDelete"
    /\ last.status = 200
    /\ users[last.node] # {}
    /\ carts[last.node] # {}
    /\ orders[last.node] # {}
    /\ products[last.node] = {}

-----------------------------------------------------------------------------
(* syncId of a record and of its envelope at creation *)

\* the handlers that create a record and dispatch it
Creators == {"registerUser", "createProduct", "addToCart", "createOrder"}

\* the collection a creator writes and the upsert route it posts to
CollectionOf(handler) ==
    CASE handler = "registerUser" -> users
      [] handler = "createProduct" -> products
      [] handler = "addToCart" -> carts
      [] handler = "createOrder" -> orders

UpsertRouteOf(handler) ==
    CASE handler = "registerUser" -> UserSync
      [] handler = "createProduct" -> ProductSync
      [] handler = "addToCart" -> CartSync
      [] handler = "createOrder" -> OrderSync

\* C30: when registerUser, createProduct, createOrder or addToCart creates a
\* record, the record is stored with a syncId by the time the dispatch is
\* scheduled, an upsert envelope is scheduled for it, and the syncId of that
\* envelope is the syncId of the stored record.
C30_EnvelopeAndRecordAgree ==
    [][\A h \in Creators : \A n \in Nodes :
          (last'.handler = h /\ last'.node = n) =>
              \A d \in CollectionOf(h)'[n] :
                  d.id \notin IdsOf(CollectionOf(h)[n]) =>
                      /\ d.syncId # Null
                      /\ \E e \in net' \ net :
                            e.from = n /\ e.route = UpsertRouteOf(h)
                      /\ \A e \in net' \ net :
                            e.route = UpsertRouteOf(h) => e.body.syncId = d.syncId]_vars

\* createOrder has stored an order and its envelope, which carries the
\* order's syncId, is in flight
C30_Witness ==
    /\ last.handler = "createOrder"
    /\ last.status = 201
    /\ \E o \in orders[last.node] : \E e \in net :
          /\ e.route = OrderSync
          /\ e.from = last.node
          /\ o.serverOrigin = last.node
          /\ o.syncId # Null
          /\ e.body.syncId = o.syncId

-----------------------------------------------------------------------------
(* Records without a syncId *)

MaxUnsyncedOps == 5

\* bodies of POST /api/carts/sync at node n that name no syncId: a basket
\* of one item for an account of the node
UnnamedCartBodies(n) ==
    {[cartData |-> [items |-> <<[product |-> p.id, quantity |-> 1,
                                 price |-> p.price, total |-> p.price]>>,
                    subTotal |-> p.price,
                    totalItems |-> 1],
      syncId |-> Null,
      serverOrigin |-> Peer(n),
      userId |-> u.id] : p \in products[n], u \in users[n]}

\* POST /api/carts/sync with a body that names no syncId
ReqSyncCartUnnamed ==
    \E n \in Nodes :
      \E body \in UnnamedCartBodies(n) :
        LET r == syncCart(carts[n], n, body)
        IN /\ carts' = [carts EXCEPT ![n] = r.carts]
           /\ last' = Last(n, "syncCart", body, r.res)
           /\ UNCHANGED <<users, products, orders, net, done, lost, nops, nredeliver, workload, running>>

InitUnsynced ==
    InitWith(Workload(1, MaxProductOps, 1, MaxOrderOps, MaxUnsyncedOps))

NextUnsynced ==
    \/ AtEntry(ReqRegisterUser)
    \/ AtEntry(ReqCreateProduct)
    \/ AtEntry(ReqSyncProductMalformed)
    \/ AtEntry(ReqSyncCartUnnamed)
    \/ AtEntry(ReqUpdateProduct)
    \/ AtEntry(ReqDeleteProduct)
    \/ AtEntry(ReqAddToCart)
    \/ AtEntry(ReqUpdateCartItem)
    \/ AtEntry(ReqClearCart)
    \/ AtEntry(ReqCreateOrder)
    \/ AtEntry(ReqUpdateOrderStatus)

SpecUnsynced == InitUnsynced /\ [][NextUnsynced]_vars

\* node n has answered a call of handler with status 200
Accepted(n, handler) ==
    /\ last'.node = n
    /\ last'.handler = handler
    /\ last'.status = 200

\* C31: updateProduct, deleteProduct, updateCartItem, clearCart and
\* updateOrderStatus, when the record they change has no syncId, commit the
\* change at the node (the update keys are set, the product is gone, the
\* quantity is set, the basket is empty, the order is cancelled) and
\* schedule no envelope.
C31_UnsyncedNotPropagated ==
    [][\A n \in Nodes :
          /\ \A p \in products[n] :
                (/\ p.syncId = Null
                 /\ last'.node = n
                 /\ last'.handler = "updateProduct"
                 /\ last'.body.id = p.id
                 /\ validateProductUpdate(last'.body.updateData)
                 /\ "syncId" \notin DOMAIN last'.body.updateData)
                => /\ last'.status = 200
                   /\ net' = net
                   /\ \E q \in products'[n] :
                         /\ q.id = p.id
                         /\ \A k \in DOMAIN last'.body.updateData :
                               q[k] = last'.body.updateData[k]
          /\ \A p \in products[n] :
                (/\ p.syncId = Null
                 /\ last'.node = n
                 /\ last'.handler = "deleteProduct"
                 /\ last'.body.id = p.id)
                => /\ last'.status = 200
                   /\ net' = net
                   /\ p.id \notin IdsOf(products'[n])
          /\ \A c \in carts[n] :
                (/\ c.syncId = Null
                 /\ Accepted(n, "updateCartItem")
                 /\ last'.body.user = c.user)
                => /\ net' = net
                   /\ \E d \in carts'[n] :
                         /\ d.id = c.id
                         /\ \E i \in 1..Len(d.items) :
                               /\ d.items[i].product = last'.body.productId
                               /\ d.items[i].quantity = last'.body.quantity
          /\ \A c \in carts[n] :
                (/\ c.syncId = Null
                 /\ last'.node = n
                 /\ last'.handler = "clearCart"
                 /\ last'.body.user = c.user)
                => /\ last'.status = 200
                   /\ net' = net
                   /\ \E d \in carts'[n] : d.id = c.id /\ d.items = <<>>
          /\ \A o \in orders[n] :
                (/\ o.syncId = Null
                 /\ Accepted(n, "updateOrderStatus")
                 /\ last'.body.orderId = o.id)
                => /\ net' = net
                   /\ \E d \in orders'[n] : d.id = o.id /\ d.status = "cancelled"]_vars

\* updateCartItem has set a quantity in a basket that has no syncId and no
\* envelope names the basket
C31_Witness ==
    /\ last.handler = "updateCartItem"
    /\ last.status = 200
    /\ \E c \in carts[last.node] :
          /\ c.user = last.body.user
          /\ c.syncId = Null
          /\ \E i \in 1..Len(c.items) : c.items[i].quantity = last.body.quantity
    /\ \A e \in net : e.route \notin {CartSync, "PUT /api/carts/sync/:syncId"}

-----------------------------------------------------------------------------
(* Dispatch to a peer that accepts the call and never answers *)

MaxSilentOps == 3

\* the axios calls of the dispatch tasks pass no timeout option and axios
\* waits without limit by default: a call ends when the peer answers or
\* when the connection fails.  A run is one where the peers answer, or one
\* where they accept the calls and never answer.
InitSilent ==
    \E answers \in BOOLEAN :
        InitWith(Workload(1, MaxProductOps, 0, 0, MaxSilentOps)
                 @@ [answers |-> answers])

\* a step that needs the peer's half of the connection
Answered(Step) == Step /\ workload.answers

\* the end of a dispatch call: the peer's handler answers, or the
\* connection fails and the catch block logs it
CallEnds ==
    \/ Answered(ReqSyncUser)
    \/ Answered(ReqSyncProduct)
    \/ Answered(ReqSyncProductUpdate)
    \/ Answered(TransportFail)

NextSilent ==
    \/ ReqRegisterUser
    \/ ReqCreateProduct
    \/ ReqUpdateProduct
    \/ CallEnds

\* a peer that answers does answer every call made to it
SpecSilent == InitSilent /\ [][NextSilent]_vars /\ WF_vars(CallEnds)

\* C32: every scheduled dispatch task eventually finishes, with its
\* envelope delivered or with a failure recorded, also when the peer never
\* answers: from some point on no dispatch task is pending.
C32_DispatchTerminates == <>[](net = {})

\* when the peers answer, every dispatch task finishes
TerminatesWhenAnswered == workload.answers => <>[](net = {})

-----------------------------------------------------------------------------
(* No echo: reconcilers schedule nothing *)

\* the envelopes a node has ever scheduled
Sent(n) == {e \in net \cup done \cup lost : e.from = n}

\* the client mutations that succeeded (all of them enter at EntryNode)
ClientMutations == nops["user"] + nops["product"] + nops["cart"] + nops["order"]

\* a reconciler step adds nothing to the envelopes in flight
NoEcho == last'.handler \in Reconcilers => net' \subseteq net

-----------------------------------------------------------------------------
(* Removal of a basket item at the peer *)

RemovalRoute == "DELETE /api/carts/sync/:syncId"

\* C34: when the envelope that removeFromCart dispatched has reached the
\* peer, the peer's basket with the same syncId no longer contains the
\* product that was removed at the origin
C34_ItemRemovalReplicated ==
    [][\A e \in net \ net' :
          e.route = RemovalRoute =>
              \A c \in carts'[e.to] :
                  c.syncId = e.param => findIndex(c.items, e.body.productId) = 0]_vars

-----------------------------------------------------------------------------
(* Cancellation at the peer *)

-----------------------------------------------------------------------------
(* Cancellation and envelopes that arrive again *)

MaxCancelOps == 6

\* one account, one product, one basket change, then an order and its
\* cancellation at the entry node; an answered envelope may arrive again
InitCancel == InitWith(Workload(1, 1, 1, 3, MaxCancelOps))

NextCancel ==
    \/ AtEntry(ReqRegisterUser)
    \/ ReqSyncUser
    \/ AtEntry(ReqCreateProduct)
    \/ ReqSyncProduct
    \/ AtEntry(ReqAddToCart)
    \/ ReqSyncCart
    \/ ReqSyncCartClear
    \/ AtEntry(ReqCreateOrder)
    \/ AtEntry(ReqUpdateOrderStatus)
    \/ ReqSyncOrder
    \/ ReqSyncOrderUpdate
    \/ Redeliver

SpecCancel == InitCancel /\ [][NextCancel]_vars

-----------------------------------------------------------------------------
(* What updateOrderStatus may change *)

\* the step is a call of updateOrderStatus
UpdateOrderStatusStep ==
    /\ last'.handler = "updateOrderStatus"
    /\ last' # last \/ nops' # nops

-----------------------------------------------------------------------------
(* Store errors in registerUser and syncUser *)

\* C38: a call of registerUser or syncUser is always answered; when the
\* store refuses the write (a unique index conflict under a race) the
\* answer carries an error status
C38_StoreErrorsAnswered ==
    last.handler \in {"registerUser", "syncUser"} => last.status >= 200

-----------------------------------------------------------------------------
(* Envelopes about records the receiver does not hold *)

\* envelope e names a record, or an account, that its receiver does not hold
Unknown(e) ==
    \/ /\ e.route = "PUT /api/products/sync/:syncId"
       /\ \A p \in products[e.to] : p.syncId # e.param
    \/ /\ e.route = "PUT /api/carts/sync/:syncId"
       /\ \A c \in carts[e.to] : c.syncId # e.param
    \/ /\ e.route = "PUT /api/orders/sync/:syncId"
       /\ \A o \in orders[e.to] : o.syncId # e.param
    \/ /\ e.route = "POST /api/orders/sync"
       /\ \A u \in users[e.to] : u.email # e.body.userEmail

-----------------------------------------------------------------------------
(* Quantities of basket items *)

MaxQuantityOps == 5

\* quantities at and above the limit that a client sends to addToCart
BulkQuantities == {100, 101}

\* POST /api/carts/add with a large quantity
ReqAddToCartBulk ==
    \E n \in Nodes, quantity \in BulkQuantities :
      \E user \in users[n], productId \in ProductIdsAt(n) :
        LET r == addToCart(carts[n], products[n], n, user, productId, quantity)
        IN /\ CanMutate("cart")
           /\ carts' = [carts EXCEPT ![n] = r.carts]
           /\ net' = net \cup Scheduled(n, "cart", r.out)
           /\ nops' = [nops EXCEPT !["cart"] = IF r.res.status = 200 THEN @ + 1 ELSE @]
           /\ last' = Last(n, "addToCart",
                           [user |-> user.id, productId |-> productId,
                            quantity |-> quantity], r.res)
           /\ UNCHANGED <<users, products, orders, done, lost, nredeliver, workload, running>>

InitQuantity == InitWith(Workload(1, 1, 3, 0, MaxQuantityOps))

NextQuantity ==
    \/ AtEntry(ReqRegisterUser)
    \/ ReqSyncUser
    \/ AtEntry(ReqCreateProduct)
    \/ ReqSyncProduct
    \/ AtEntry(ReqAddToCart)
    \/ AtEntry(ReqAddToCartBulk)
    \/ AtEntry(ReqUpdateCartItem)
    \/ AtEntry(ReqRemoveFromCart)
    \/ ReqSyncCart
    \/ ReqSyncCartUpdate
    \/ ReqCartSyncDelete

SpecQuantity == InitQuantity /\ [][NextQuantity]_vars

\* C40: every item of every basket has a quantity between 1 and 100
C40_QuantityWithinLimits ==
    \A n \in Nodes : \A c \in carts[n] :
        \A i \in 1..Len(c.items) :
            c.items[i].quantity >= 1 /\ c.items[i].quantity <= 100

====
